---- MODULE Spec2Model ----
(***************************************************************************)
(* A model of the run-time core of the kernel: tasks and their states, the *)
(* ready queue, the dispatcher of the hosted port, CPU Lock, wait queues   *)
(* (kernel/wait.rs), the semaphores and event groups built on them, the    *)
(* services checked against their calling context, and the time base with  *)
(* its timeouts and the timer (kernel/timer.rs).                           *)
(*                                                                         *)
(* The kernel state is handled as one record `k` by the operators that     *)
(* model kernel functions (each returns the state after the call); the     *)
(* actions at the end apply them to the variables.                         *)
(***************************************************************************)
EXTENDS Integers, Sequences, FiniteSets, TLC

\* ------------------------------------------------------------------------
\* Bounds and configuration
\* ------------------------------------------------------------------------

\* The largest `count` passed to Semaphore::signal.
MaxCount == 2

\* CfgBuilder::new: the default number of task priority levels.
num_task_priority_levels == 16

\* The task pool, in the order of definition (TASK_CB_POOL).
TaskPool == <<"t1", "t2", "t3">>

Tasks == {TaskPool[i] : i \in 1..Len(TaskPool)}

NoTask == "no_task"

\* The task tables the model is run with: the two of the kernel tests
\* (task_misc, time_set_event) and three more that give equal priorities,
\* a highest-priority first task and two initially active tasks.
TaskTables ==
    { [priority |-> [t1 |-> 2, t2 |-> 1, t3 |-> 1], active |-> {"t1"}],
      [priority |-> [t1 |-> 3, t2 |-> 1, t3 |-> 2], active |-> {"t1"}],
      [priority |-> [t1 |-> 1, t2 |-> 1, t3 |-> 1], active |-> {"t1"}],
      [priority |-> [t1 |-> 1, t2 |-> 2, t3 |-> 3], active |-> {"t1"}],
      [priority |-> [t1 |-> 2, t2 |-> 3, t3 |-> 1], active |-> {"t1", "t2"}] }

\* The semaphore table: (initial, maximum, queue-order).
Sems == {"s1", "s2"}

SemTable ==
    [s1 |-> [initial |-> 0, maximum |-> 1, queue_order |-> "TaskPriority"],
     s2 |-> [initial |-> 1, maximum |-> 2, queue_order |-> "Fifo"]]

\* The event group and its bits (bit positions; 0b0110 is {1, 2}).
EventGroups == {"eg"}

EventBits == {1, 2}

\* The wait queues: one per semaphore and one per event group.
Queues == Sems \cup EventGroups

NoQueue == "no_queue"

\* WaitPayload: what a waiter waits for. A semaphore waiter carries no data.
SemaphorePermit == [bits |-> {}, all |-> FALSE, clear |-> FALSE]

Levels == 0..(num_task_priority_levels - 1)

\* The number of values of a tick count (Time32): the tick counter and the
\* expiration times are kept modulo it.
TimeModulus == 32

\* The most callbacks of a schedule the history of the timer counts.
MaxCalls == 4

\* How far in the past an expiration time may lie and still be told from
\* one in the future.
TIME_USER_HEADROOM == (TimeModulus \div 2) - 2

\* The Time32 that is no valid duration: infinity, or not scheduled.
BAD_DURATION32 == TimeModulus - 1

Ticks == 0..(TimeModulus - 1)

\* The tasks that sleep (task2 and task3 of time_set_event).
Sleepers == {"t2", "t3"}

\* The durations slept for, in ticks (100 ms and 300 ms at 100 ms a tick).
SleepDurations == {1, 3}

\* The system times set, counted from the tick counter: the time since
\* boot, 300 ms more, and 300 ms less.
TimeShifts == {0, 3, TimeModulus - 3}

\* The timer.
Timer0 == "timer"

\* The owners of the timeout objects.
Owners == Sleepers \cup {Timer0}

\* Option<Duration>: None is the empty sequence, Some(d) is <<d>>.
None == <<>>

Some(d) == <<d>>

\* The delays and periods given to the timer, in ticks (70 ms and 40 ms at
\* 10 ms a tick, and a second delay), and None.
Delays == {None, Some(3), Some(7)}

Periods == {None, Some(4)}

\* The attributes a timer is configured with.
TimerAttrs == [init_active : BOOLEAN, delay : Delays, period : Periods]

\* A configuration whose timer is never used.
NoTimerAttr == [init_active |-> FALSE, delay |-> None, period |-> None]

\* The task table of time_set_event.
TimeTable == [priority |-> [t1 |-> 3, t2 |-> 1, t3 |-> 2], active |-> {"t1"}]

VARIABLES
    cfg,            \* the task table chosen at configuration time
    st,             \* TaskCb::st, the task states
    tsm,            \* TaskState::tsm of the port, per task
    running_task,   \* State::running_task
    ready_queue,    \* the ready queue, a FIFO list per priority level
    ready_bitmap,   \* the priority bitmap (the set of its set bits)
    waits,          \* WaitQueue::waits of every wait queue
    current_wait,   \* TaskWait::current_wait: the owner of the Wait referred to
    wait_queue,     \* Wait::wait_queue of the Wait object on each task's stack
    payload,        \* Wait::payload of the Wait object on each task's stack
    orig_bits,      \* the bits reported to an event-group waiter
    wait_result,    \* the result the waker stored for the waiter
    timeout,        \* whether the task's wait has a linked timeout
    value,          \* the semaphore values
    bits,           \* the event group's bits
    park_token,     \* the park token (binary permit) of each task
    cpu_lock,       \* SchedState::cpu_lock
    pended,         \* the pended bit of INTERRUPT_LINE_DISPATCH
    lines,          \* the priority, enable and pended bits of the other lines
    handler,        \* the interrupt handler being executed, if any
    phase,          \* boot, run, or panicked
    fault,          \* the assertion of the port's CPU Lock code that failed, if any
    pc,             \* where each task's thread is
    op,             \* the system call each task made last
    result,         \* the result of that call
    arrivals,       \* history: per queue, the waiters in order of arrival
    hook,           \* the last service called in the boot context and its result
    tick,           \* the tick counter: the time the timeouts are kept in
    time_offset,    \* the system time minus the tick counter
    heap,           \* the owners of the linked timeouts, earliest first
    at,             \* Timeout::at of each timeout object
    timer_active,   \* TimerCb::active
    timer_period,   \* TimerCb::period
    thist           \* history of the timer's schedule and callback

kvars == <<st, tsm, running_task, ready_queue, ready_bitmap, waits, current_wait,
           wait_queue, payload, orig_bits, wait_result, timeout, value, bits,
           park_token, cpu_lock, pended, lines, handler, phase, fault>>

\* The time base, the timeouts and the timer.
tvars == <<tick, time_offset, heap, at, timer_active, timer_period, thist>>

vars == <<cfg, kvars, pc, op, result, arrivals, hook, tvars>>

\* What no step of a task, the dispatcher or a wait changes: the
\* configuration, the record of the boot context's calls, and the time base.
cvars == <<cfg, hook, tvars>>

\* The kernel and port state as one record.
K ==
    [st |-> st, tsm |-> tsm, running_task |-> running_task,
     ready_queue |-> ready_queue, ready_bitmap |-> ready_bitmap,
     waits |-> waits, current_wait |-> current_wait, wait_queue |-> wait_queue,
     payload |-> payload, orig_bits |-> orig_bits, wait_result |-> wait_result,
     timeout |-> timeout, value |-> value, bits |-> bits,
     park_token |-> park_token, cpu_lock |-> cpu_lock, pended |-> pended,
     lines |-> lines, handler |-> handler,
     phase |-> phase, fault |-> fault, priority |-> cfg.priority]

Commit(k) ==
    /\ st' = k.st
    /\ tsm' = k.tsm
    /\ running_task' = k.running_task
    /\ ready_queue' = k.ready_queue
    /\ ready_bitmap' = k.ready_bitmap
    /\ waits' = k.waits
    /\ current_wait' = k.current_wait
    /\ wait_queue' = k.wait_queue
    /\ payload' = k.payload
    /\ orig_bits' = k.orig_bits
    /\ wait_result' = k.wait_result
    /\ timeout' = k.timeout
    /\ value' = k.value
    /\ bits' = k.bits
    /\ park_token' = k.park_token
    /\ cpu_lock' = k.cpu_lock
    /\ pended' = k.pended
    /\ lines' = k.lines
    /\ handler' = k.handler
    /\ phase' = k.phase
    /\ fault' = k.fault

\* A failed assertion (assert!, unwrap, unreachable!, todo!, panic!).
Panic(k) == [k EXCEPT !.phase = "panicked"]

Remove(seq, x) == SelectSeq(seq, LAMBDA y : y # x)

InSeq(seq, x) == \E i \in 1..Len(seq) : seq[i] = x

\* ------------------------------------------------------------------------
\* Ready queue and scheduler (kernel/task.rs)
\* ------------------------------------------------------------------------

\* FixedPrioBitmap::find_set: the highest occupied level (count_trailing_zeros).
find_set(bitmap) == CHOOSE p \in bitmap : \A r \in bitmap : p <= r

\* Make a task Ready: append it to the tail of its priority level and set
\* the level's bit.
make_ready(k, t) ==
    LET p == k.priority[t] IN
    [k EXCEPT !.st[t] = "Ready",
              !.ready_queue[p] = Append(@, t),
              !.ready_bitmap = @ \cup {p}]

\* PortThreading::initialize_task_state of the hosted port.
initialize_task_state(k, t) ==
    CASE k.tsm[t] = "Dormant" -> k
      [] k.tsm[t] = "Running" -> [Panic(k) EXCEPT !.fault = "initialize_task_state"]
      [] k.tsm[t] = "Uninit" -> [k EXCEPT !.tsm[t] = "Dormant"]

\* Step 1 of choose_running_task: every task pending activation is
\* reinitialized and made Ready, in the order of the task pool.
RECURSIVE activate_pending(_, _)
activate_pending(k, i) ==
    IF i > Len(TaskPool) THEN k
    ELSE LET t == TaskPool[i] IN
         activate_pending(
             IF k.st[t] = "PendingActivation"
             THEN make_ready(initialize_task_state(k, t), t)
             ELSE k,
             i + 1)

\* Pop the head of the highest occupied level of the ready queue.
pop_highest(k) ==
    LET p == find_set(k.ready_bitmap)
        rest == Tail(k.ready_queue[p])
    IN [k EXCEPT !.ready_queue[p] = rest,
                 !.ready_bitmap = IF rest = <<>> THEN @ \ {p} ELSE @]

\* The scheduler's decision, made with CPU Lock active.
choose_running_task(k0) ==
    LET k == activate_pending(k0, 1) IN
    IF k.ready_bitmap = {} THEN [k EXCEPT !.running_task = NoTask]
    ELSE
        LET top == Head(k.ready_queue[find_set(k.ready_bitmap)])
            k1 == pop_highest(k)
            prev == k.running_task
            k2 == IF prev # NoTask /\ k1.st[prev] = "Running"
                  THEN make_ready(k1, prev)
                  ELSE k1
        IN IF top = prev THEN k1
           ELSE [k2 EXCEPT !.running_task = top, !.st[top] = "Running"]

\* The preemption check made when CPU Lock is released: whether a task that
\* is Ready, or that the scheduler is about to make Ready, has a strictly
\* higher priority than the Running task (or no task is Running).
has_preempting_task(k) ==
    LET prev == k.running_task IN
    \/ prev = NoTask
    \/ k.st[prev] # "Running"
    \/ \E t \in Tasks :
          /\ k.st[t] \in {"Ready", "PendingActivation"}
          /\ k.priority[t] < k.priority[prev]

\* Transition the running task into Waiting (the yield follows when CPU
\* Lock is released).
wait_until_woken_up(k, t) == [k EXCEPT !.st[t] = "Waiting"]

\* ------------------------------------------------------------------------
\* The hosted port (constance_port_std)
\* ------------------------------------------------------------------------

\* The number of interrupt lines, the dispatch line among them, and the
\* priority of the dispatch line.
NUM_INTERRUPT_LINES == 1024

INTERRUPT_PRIORITY_DISPATCH == 16384

\* InterruptPriority::max_value(), the end of the managed range.
InterruptPriorityMax == 32767

\* MANAGED_INTERRUPT_PRIORITY_RANGE of use_port!.
is_managed(priority) == 0 <= priority /\ priority < InterruptPriorityMax

\* The lines at start-up: priority 0, disabled, not pended. The priorities
\* are kept for the lines whose priority has been set.
NoLines == [priority |-> <<>>, enable |-> {}, pended |-> {}]

\* IntLine::priority of line num.
line_priority(k, num) ==
    IF num \in DOMAIN k.lines.priority THEN k.lines.priority[num] ELSE 0

\* The lines pending for delivery: enabled, pended, priority managed.
pending_lines(k) ==
    {n \in k.lines.enable \cap k.lines.pended : is_managed(line_priority(k, n))}

\* The most urgent of the lines pending for delivery: lowest priority
\* value, then lowest number.
first_pending_line(k) ==
    CHOOSE n \in pending_lines(k) :
        \A m \in pending_lines(k) :
            \/ line_priority(k, n) < line_priority(k, m)
            \/ line_priority(k, n) = line_priority(k, m) /\ n <= m

\* sched::check_preemption_by_interrupt: the most urgent pended line is
\* delivered when CPU Lock is inactive and no handler is running; the
\* dispatch line is the last of its priority.
check_preemption_by_interrupt(k) ==
    IF k.cpu_lock \/ k.handler # "none" \/ k.phase = "panicked" THEN k
    ELSE IF /\ pending_lines(k) # {}
            /\ \/ ~k.pended
               \/ line_priority(k, first_pending_line(k)) <= INTERRUPT_PRIORITY_DISPATCH
    THEN [k EXCEPT !.lines.pended = @ \ {first_pending_line(k)}, !.handler = "line"]
    ELSE IF k.pended THEN [k EXCEPT !.pended = FALSE, !.handler = "dispatch"]
    ELSE k

\* Scheduler::update_line: the field of line num is set; there is no line
\* of that number from NUM_INTERRUPT_LINES on.
update_line(k, num, field, v) ==
    IF num >= NUM_INTERRUPT_LINES THEN [k |-> k, ok |-> FALSE]
    ELSE [k |-> CASE field = "priority" ->
                       [k EXCEPT !.lines.priority =
                           [n \in DOMAIN @ \cup {num} |-> IF n = num THEN v ELSE @[n]]]
                  [] field = "enable" ->
                       [k EXCEPT !.lines.enable = IF v THEN @ \cup {num} ELSE @ \ {num}]
                  [] field = "pended" ->
                       [k EXCEPT !.lines.pended = IF v THEN @ \cup {num} ELSE @ \ {num}],
          ok |-> TRUE]

\* State::set_interrupt_line_priority.
set_interrupt_line_priority(k, num, priority) ==
    LET r == update_line(k, num, "priority", priority) IN
    IF ~r.ok THEN [k |-> k, result |-> "BadParam"]
    ELSE [k |-> check_preemption_by_interrupt(r.k), result |-> "Ok"]

\* State::enable_interrupt_line.
enable_interrupt_line(k, num) ==
    LET r == update_line(k, num, "enable", TRUE) IN
    IF ~r.ok THEN [k |-> k, result |-> "BadParam"]
    ELSE [k |-> check_preemption_by_interrupt(r.k), result |-> "Ok"]

\* State::disable_interrupt_line.
disable_interrupt_line(k, num) ==
    LET r == update_line(k, num, "enable", FALSE) IN
    IF ~r.ok THEN [k |-> k, result |-> "BadParam"]
    ELSE [k |-> r.k, result |-> "Ok"]

\* A pend_interrupt_line that drops the error of update_line.
pend_line_unchecked(k, num) ==
    [k |-> check_preemption_by_interrupt(update_line(k, num, "pended", TRUE).k),
     result |-> "Ok"]

\* State::pend_interrupt_line for a line other than the dispatch line.
pend_line(k, num) ==
    LET r == update_line(k, num, "pended", TRUE) IN
    IF ~r.ok THEN [k |-> k, result |-> "BadParam"]
    ELSE [k |-> check_preemption_by_interrupt(r.k), result |-> "Ok"]

\* State::clear_interrupt_line.
clear_interrupt_line(k, num) ==
    LET r == update_line(k, num, "pended", FALSE) IN
    IF ~r.ok THEN [k |-> k, result |-> "BadParam"]
    ELSE [k |-> r.k, result |-> "Ok"]

\* State::is_interrupt_line_pending (Scheduler::is_line_pended).
is_interrupt_line_pending(k, num) ==
    IF num >= NUM_INTERRUPT_LINES THEN [k |-> k, result |-> "BadParam"]
    ELSE [k |-> k, result |-> IF num \in k.lines.pended THEN "True" ELSE "False"]

\* State::enter_cpu_lock: assert!(!cpu_lock), then set the flag.
enter_cpu_lock(k) ==
    IF k.cpu_lock THEN [Panic(k) EXCEPT !.fault = "enter_cpu_lock"]
    ELSE [k EXCEPT !.cpu_lock = TRUE]

\* A leave_cpu_lock that clears the flag and lets no interrupt in.
leave_cpu_lock_without_check(k) ==
    IF ~k.cpu_lock THEN [Panic(k) EXCEPT !.fault = "leave_cpu_lock"]
    ELSE [k EXCEPT !.cpu_lock = FALSE]

\* State::leave_cpu_lock: assert!(cpu_lock), clear the flag, and let a
\* pended interrupt in.
leave_cpu_lock(k) ==
    IF ~k.cpu_lock THEN [Panic(k) EXCEPT !.fault = "leave_cpu_lock"]
    ELSE check_preemption_by_interrupt([k EXCEPT !.cpu_lock = FALSE])

pend_interrupt_line(k) ==
    check_preemption_by_interrupt([k EXCEPT !.pended = TRUE])

\* A yield that does not pend the dispatch interrupt.
yield_cpu_without_pend(k) ==
    IF k.cpu_lock THEN Panic(k) ELSE k

yield_cpu(k) ==
    IF k.cpu_lock THEN [Panic(k) EXCEPT !.fault = "yield_cpu"]
    ELSE pend_interrupt_line(k)

\* State::dispatch_first_task: arm the dispatch line and start scheduling.
dispatch_first_task(k) ==
    IF ~k.cpu_lock THEN Panic(k)
    ELSE LET k1 == check_preemption_by_interrupt(
                       [k EXCEPT !.pended = TRUE, !.cpu_lock = FALSE, !.phase = "run"])
         IN IF k1.handler = "dispatch" THEN k1 ELSE Panic(k1)

\* A dispatcher that idles when there is no task to schedule.
dispatch_thread_idle(k1) ==
    LET task == k1.running_task IN
    IF k1.phase = "panicked" \/ task = NoTask THEN k1
    ELSE CASE k1.tsm[task] = "Dormant" -> [k1 EXCEPT !.tsm[task] = "Running"]
           [] k1.tsm[task] = "Running" -> k1
           [] k1.tsm[task] = "Uninit" -> Panic(k1)

\* The second half of State::dispatch: tell the scheduler which thread to
\* run next, spawning one for a task that has none.
dispatch_thread(k1) ==
    LET task == k1.running_task IN
    IF k1.phase = "panicked" THEN k1
    ELSE IF task = NoTask THEN Panic(k1)
    ELSE CASE k1.tsm[task] = "Dormant" -> [k1 EXCEPT !.tsm[task] = "Running"]
           [] k1.tsm[task] = "Running" -> k1
           [] k1.tsm[task] = "Uninit" -> [Panic(k1) EXCEPT !.fault = "dispatch"]

\* A dispatcher that keeps the running task when there is one.
dispatch_keeps_running(k) ==
    IF k.running_task # NoTask /\ k.st[k.running_task] = "Running"
    THEN k
    ELSE dispatch_thread(leave_cpu_lock(choose_running_task(enter_cpu_lock(k))))

\* State::dispatch, the handler of the dispatch interrupt.
dispatch(k) ==
    dispatch_thread(leave_cpu_lock(choose_running_task(enter_cpu_lock(k))))

\* An exit that leaves the port state of the task as it is.
exit_and_dispatch_keeps_state(k, t) ==
    IF ~k.cpu_lock \/ k.tsm[t] # "Running"
    THEN [Panic(k) EXCEPT !.fault = "exit_and_dispatch"]
    ELSE yield_cpu([k EXCEPT !.cpu_lock = FALSE])

\* TaskState::exit_and_dispatch through State::exit_and_dispatch.
exit_and_dispatch(k, t) ==
    IF ~k.cpu_lock \/ k.tsm[t] # "Running"
    THEN [Panic(k) EXCEPT !.fault = "exit_and_dispatch"]
    ELSE yield_cpu([k EXCEPT !.tsm[t] = "Uninit", !.cpu_lock = FALSE])

\* Release CPU Lock and yield if a task is to preempt the running one.
unlock_cpu_and_check_preemption(k) ==
    LET preempt == has_preempting_task(k)
        k1 == leave_cpu_lock(k)
    IN IF preempt /\ k1.phase # "panicked" THEN yield_cpu(k1) ELSE k1

\* ------------------------------------------------------------------------
\* Wait queues (kernel/wait.rs)
\* ------------------------------------------------------------------------

\* A Wait object lives on its task's stack, so a WaitRef is identified by
\* the task that owns the stack. Its `link` is its place in `waits`.

\* A complete_wait that marks the task Ready without linking it to the ready
\* queue.
complete_wait_without_link(k, w) ==
    IF k.current_wait[w] # w THEN Panic(k)
    ELSE LET k1 == [k EXCEPT !.current_wait[w] = NoTask] IN
         IF k1.st[w] # "Waiting" THEN Panic(k1)
         ELSE [k1 EXCEPT !.st[w] = "Ready"]

\* A complete_wait that lets the woken task run at once.
complete_wait_runs_task(k, w) ==
    IF k.current_wait[w] # w THEN Panic(k)
    ELSE LET k1 == [k EXCEPT !.current_wait[w] = NoTask] IN
         IF k1.st[w] # "Waiting" THEN Panic(k1)
         ELSE [k1 EXCEPT !.st[w] = "Running"]

\* A complete_wait that clears current_wait but leaves the task Waiting.
complete_wait_without_make_ready(k, w) ==
    IF k.current_wait[w] # w THEN Panic(k)
    ELSE LET k1 == [k EXCEPT !.current_wait[w] = NoTask] IN
         IF k1.st[w] # "Waiting" THEN Panic(k1) ELSE k1

\* complete_wait: deassociate the wait object from its task and make the
\* task Ready. It does not remove the object from the queue.
complete_wait(k, w) ==
    IF k.current_wait[w] # w THEN Panic(k)
    ELSE LET k1 == [k EXCEPT !.current_wait[w] = NoTask] IN
         IF k1.st[w] # "Waiting" THEN Panic(k1)
         ELSE make_ready(k1, w)

\* An insertion that links the wait object but leaves current_wait unset.
wait_inner_without_current_wait(k, q, t) ==
    IF k.running_task # t \/ k.wait_queue[t] # q THEN Panic(k)
    ELSE wait_until_woken_up([k EXCEPT !.waits[q] = Append(@, t)], t)

\* An insertion that links the wait object at the front of the queue.
wait_inner_push_front(k, q, t) ==
    IF k.running_task # t \/ k.wait_queue[t] # q THEN Panic(k)
    ELSE wait_until_woken_up(
             [k EXCEPT !.waits[q] = <<t>> \o @,
                       !.current_wait[t] = t],
             t)

\* WaitQueue::wait_inner up to the point where the task is suspended:
\* link the wait object at the back, set current_wait, go Waiting.
wait_inner(k, q, t) ==
    IF k.running_task # t \/ k.wait_queue[t] # q THEN Panic(k)
    ELSE wait_until_woken_up(
             [k EXCEPT !.waits[q] = Append(@, t),
                       !.current_wait[t] = t],
             t)

\* WaitQueue::wait: construct the wait object of the running task and
\* insert it.
wait(k, q, pl) ==
    LET t == k.running_task IN
    IF t = NoTask THEN Panic(k)
    ELSE wait_inner([k EXCEPT !.wait_queue[t] = q,
                              !.payload[t] = pl,
                              !.wait_result[t] = "Ok"],
                    q, t)

\* WaitQueue::wait_inner after the task was woken up: the waker must have
\* unlinked the wait object and cleared current_wait.
wait_inner_resume(k, t) ==
    IF (\E q \in Queues : InSeq(k.waits[q], t)) \/ k.current_wait[t] # NoTask
    THEN Panic(k)
    ELSE [k EXCEPT !.wait_queue[t] = NoQueue, !.payload[t] = SemaphorePermit]

\* A wake_up_one that unlinks the head waiter without completing its wait.
wake_up_one_without_complete(k, q) ==
    IF k.waits[q] = <<>> THEN [k |-> k, woke |-> FALSE]
    ELSE [k |-> [k EXCEPT !.waits[q] = Tail(@)], woke |-> TRUE]

\* A wake_up_one that wakes nobody up.
wake_up_one_never(k, q) == [k |-> k, woke |-> FALSE]

\* WaitQueue::wake_up_one: wake up up to one waiting task; `woke` tells
\* whether it has.
wake_up_one(k, q) ==
    IF k.waits[q] = <<>> THEN [k |-> k, woke |-> FALSE]
    ELSE LET wait_ref == Head(k.waits[q])
             k1 == [k EXCEPT !.waits[q] = Tail(@)]
         IN IF k1.wait_queue[wait_ref] # q THEN [k |-> Panic(k1), woke |-> FALSE]
            ELSE [k |-> complete_wait(k1, wait_ref), woke |-> TRUE]

\* The loop of WaitQueue::wake_up_all: wake_up_one until it returns false.
RECURSIVE wake_up_rest(_, _)
wake_up_rest(k, q) ==
    LET r == wake_up_one(k, q) IN
    IF r.woke /\ r.k.phase # "panicked" THEN wake_up_rest(r.k, q) ELSE r.k

\* WaitQueue::wake_up_all: true if it has woken up at least one task.
wake_up_all(k, q) ==
    LET r == wake_up_one(k, q) IN
    IF r.woke /\ r.k.phase # "panicked"
    THEN [k |-> wake_up_rest(r.k, q), woke |-> TRUE]
    ELSE r

\* ------------------------------------------------------------------------
\* Event groups (kernel/event_group.rs)
\* ------------------------------------------------------------------------

\* Whether a waiter's condition holds against the bits: any-bit or all-bits.
is_satisfied(b, pl) ==
    IF pl.all THEN pl.bits \subseteq b ELSE pl.bits \cap b # {}

\* The condition the event group hands to wake_up_all_conditional: if the
\* waiter's condition holds, report the bits to it and, if it asked for it,
\* clear the matched bits in the group.
event_group_cond(k, w) ==
    LET pl == k.payload[w] IN
    IF is_satisfied(k.bits, pl)
    THEN [k |-> [k EXCEPT !.orig_bits[w] = k.bits,
                          !.bits = IF pl.clear THEN @ \ pl.bits ELSE @],
          ok |-> TRUE]
    ELSE [k |-> k, ok |-> FALSE]

\* The conditions on the payload alone that are handed to
\* wake_up_all_conditional: the waiters for all bits, those that clear,
\* and none.
PayloadConds == {"cond_all", "cond_clear", "cond_none"}

Accepts(cond, pl) ==
    CASE cond = "cond_all" -> pl.all
      [] cond = "cond_clear" -> pl.clear
      [] cond = "cond_none" -> FALSE

\* The kernel state together with the wait objects a condition has been
\* called with so far, in the order of the calls.
WithEvals(k) ==
    [f \in DOMAIN k \cup {"evals"} |-> IF f = "evals" THEN <<>> ELSE k[f]]

\* A condition on the payload: it notes the call and answers.
payload_cond(cond, k, w) ==
    [k |-> [k EXCEPT !.evals = Append(@, w)], ok |-> Accepts(cond, k.payload[w])]

\* The call of the closure handed to wake_up_all_conditional; closures are
\* passed by name.
call_cond(cond, k, w) ==
    CASE cond = "event_group_cond" -> event_group_cond(k, w)
      [] OTHER -> payload_cond(cond, k, w)

\* A wake_up_all_conditional that visits the wait objects from the back.
wake_up_all_conditional_from_back(k, q, cond) ==
    LET refs == k.waits[q]
        n == Len(refs)
        after[i \in 0..n] ==
            IF i = 0 THEN k
            ELSE LET kp == after[i - 1]
                     wait_ref == refs[n + 1 - i]
                     c == call_cond(cond, kp, wait_ref)
                 IN IF ~c.ok THEN c.k
                    ELSE complete_wait(
                             [c.k EXCEPT !.waits[q] = Remove(@, wait_ref)],
                             wait_ref)
    IN after[n]

\* A wake_up_all_conditional that stops at the first wait object the
\* condition rejects.
wake_up_all_conditional_until_rejected(k, q, cond) ==
    LET refs == k.waits[q]
        after[i \in 0..Len(refs)] ==
            IF i = 0 THEN [k |-> k, done |-> FALSE]
            ELSE LET kp == after[i - 1].k
                     wait_ref == refs[i]
                     c == call_cond(cond, kp, wait_ref)
                 IN IF after[i - 1].done THEN after[i - 1]
                    ELSE IF ~c.ok THEN [k |-> c.k, done |-> TRUE]
                    ELSE [k |-> complete_wait(
                                    [c.k EXCEPT !.waits[q] = Remove(@, wait_ref)],
                                    wait_ref),
                          done |-> FALSE]
    IN after[Len(refs)].k

\* A wake_up_all_conditional that wakes the accepted tasks up and leaves
\* their wait objects in the queue.
wake_up_all_conditional_without_remove(k, q, cond) ==
    LET refs == k.waits[q]
        after[i \in 0..Len(refs)] ==
            IF i = 0 THEN k
            ELSE LET kp == after[i - 1]
                     wait_ref == refs[i]
                     c == call_cond(cond, kp, wait_ref)
                 IN IF kp.phase = "panicked" THEN kp
                    ELSE IF ~c.ok THEN c.k
                    ELSE complete_wait(c.k, wait_ref)
    IN after[Len(refs)]

\* WaitQueue::wake_up_all_conditional: visit the wait objects from the
\* front; remove and wake up those the condition accepts. The objects
\* visited are those of the queue at the start (the next object is found
\* before the current one is removed); after[i] is the state after the
\* i-th visit.
wake_up_all_conditional(k, q, cond) ==
    LET refs == k.waits[q]
        after[i \in 0..Len(refs)] ==
            IF i = 0 THEN k
            ELSE LET kp == after[i - 1]
                     wait_ref == refs[i]
                     c == call_cond(cond, kp, wait_ref)
                 IN IF kp.phase = "panicked" THEN kp
                    ELSE IF kp.wait_queue[wait_ref] # q THEN Panic(kp)
                    ELSE IF ~c.ok THEN c.k
                    ELSE complete_wait(
                             [c.k EXCEPT !.waits[q] = Remove(@, wait_ref)],
                             wait_ref)
    IN after[Len(refs)]

\* EventGroup::set: OR the mask into the bits, then wake up the waiters
\* whose condition holds.
event_group_set(k, g, mask) ==
    wake_up_all_conditional([k EXCEPT !.bits = @ \cup mask], g, "event_group_cond")

\* EventGroup::clear: AND-NOT the mask.
event_group_clear(k, g, mask) == [k EXCEPT !.bits = @ \ mask]

\* EventGroup::wait: evaluate the condition at once, else block.
event_group_wait(k, g, pl) ==
    LET t == k.running_task IN
    IF is_satisfied(k.bits, pl)
    THEN [k EXCEPT !.orig_bits[t] = k.bits,
                   !.bits = IF pl.clear THEN @ \ pl.bits ELSE @]
    ELSE wait(k, g, pl)

\* ------------------------------------------------------------------------
\* Semaphores (kernel/semaphore.rs)
\* ------------------------------------------------------------------------

\* The first part of signal: while waiters exist and permits are left, wake
\* up the head waiter and give it one permit. `left` is the remainder.
RECURSIVE signal_waiters(_, _, _)
signal_waiters(k, s, n) ==
    IF n = 0 \/ k.phase = "panicked" THEN [k |-> k, left |-> n]
    ELSE LET r == wake_up_one(k, s) IN
         IF r.woke THEN signal_waiters(r.k, s, n - 1)
         ELSE [k |-> r.k, left |-> n]

\* A signal that saturates the value at the maximum without reporting it.
signal_silently_saturating(k, s, count) ==
    LET r == signal_waiters(k, s, count)
        sum == r.k.value[s] + r.left
        max == SemTable[s].maximum
    IN [k |-> [r.k EXCEPT !.value[s] = IF sum > max THEN max ELSE sum],
        result |-> "Ok"]

\* A signal that adds the remainder to the value without a limit.
signal_unbounded(k, s, count) ==
    LET r == signal_waiters(k, s, count) IN
    [k |-> [r.k EXCEPT !.value[s] = @ + r.left], result |-> "Ok"]

\* Semaphore::signal: the remainder is added to the value, which saturates
\* at the maximum; QueueOverflow if it would exceed it.
signal(k, s, count) ==
    LET r == signal_waiters(k, s, count)
        sum == r.k.value[s] + r.left
        max == SemTable[s].maximum
    IN IF sum > max
       THEN [k |-> [r.k EXCEPT !.value[s] = max], result |-> "QueueOverflow"]
       ELSE [k |-> [r.k EXCEPT !.value[s] = sum], result |-> "Ok"]

\* Semaphore::poll_one: take a permit if there is one, else Timeout.
poll_one(k, s) ==
    IF k.value[s] >= 1
    THEN [k |-> [k EXCEPT !.value[s] = @ - 1], result |-> "Ok"]
    ELSE [k |-> k, result |-> "Timeout"]

\* Semaphore::wait_one: take a permit if there is one, else block.
wait_one(k, s) ==
    IF k.value[s] >= 1
    THEN [k |-> [k EXCEPT !.value[s] = @ - 1], result |-> "Ok"]
    ELSE [k |-> wait(k, s, SemaphorePermit), result |-> "Pending"]

\* Semaphore::wait_one_timeout: block with a timeout record; a zero timeout
\* degenerates to a poll.
wait_one_timeout(k, s, zero) ==
    IF zero THEN poll_one(k, s)
    ELSE LET r == wait_one(k, s) IN
         IF r.result = "Pending"
         THEN [r EXCEPT !.k.timeout[k.running_task] = TRUE]
         ELSE r

\* Semaphore::drain: remove all permits.
drain(k, s) == [k EXCEPT !.value[s] = 0]

\* The callback of a wait's timeout: unlink the timeout; if the task is
\* still waiting, remove its wait object from the queue and wake it up with
\* Timeout.
wait_timeout_handler(k, t) ==
    LET k1 == [k EXCEPT !.timeout[t] = FALSE] IN
    IF k1.st[t] = "Waiting" /\ k1.current_wait[t] = t
    THEN complete_wait(
             [k1 EXCEPT !.waits[k.wait_queue[t]] = Remove(@, t),
                        !.wait_result[t] = "Timeout"],
             t)
    ELSE k1

\* ------------------------------------------------------------------------
\* Tasks (kernel/task.rs)
\* ------------------------------------------------------------------------

\* Task::activate: only a Dormant task can be activated.
\* An activate that reports success for a task that is not Dormant.
activate_overflow_ignored(k, t) ==
    IF k.st[t] # "Dormant"
    THEN [k |-> k, result |-> "Ok"]
    ELSE [k |-> [k EXCEPT !.st[t] = "PendingActivation"], result |-> "Ok"]

activate(k, t) ==
    IF k.st[t] # "Dormant"
    THEN [k |-> k, result |-> "QueueOverflow"]
    ELSE [k |-> [k EXCEPT !.st[t] = "PendingActivation"], result |-> "Ok"]

\* Kernel::exit_task: the running task goes Dormant and its stack is
\* discarded.
exit_task(k) ==
    LET t == k.running_task IN
    exit_and_dispatch([enter_cpu_lock(k) EXCEPT !.st[t] = "Dormant"], t)

\* ------------------------------------------------------------------------
\* Contexts and the services checked against them
\* ------------------------------------------------------------------------

\* Task context: neither the boot phase nor an interrupt handler.
is_task_context(k) == k.phase = "run" /\ k.handler = "none"

\* The failure every service reports from a context that disallows it; the
\* state is left as it was.
BadContext(k) == [k |-> k, result |-> "BadContext"]

\* A flag that always reads as clear.
is_cpu_lock_active_never(k) == FALSE

\* State::is_cpu_lock_active.
is_cpu_lock_active(k) == k.cpu_lock

\* klock::lock_cpu: acquire CPU Lock for a service; fails if it is active.
lock_cpu(k) ==
    IF is_cpu_lock_active(k) THEN [k |-> k, ok |-> FALSE]
    ELSE [k |-> enter_cpu_lock(k), ok |-> TRUE]

\* An acquire_cpu_lock that nests.
acquire_cpu_lock_nested(k) == [k |-> enter_cpu_lock(k), result |-> "Ok"]

\* Kernel::acquire_cpu_lock.
acquire_cpu_lock(k) ==
    IF is_cpu_lock_active(k) THEN BadContext(k)
    ELSE [k |-> enter_cpu_lock(k), result |-> "Ok"]

\* Kernel::release_cpu_lock: on release the preemption check runs.
release_cpu_lock(k) ==
    IF ~is_cpu_lock_active(k) THEN BadContext(k)
    ELSE [k |-> unlock_cpu_and_check_preemption(k), result |-> "Ok"]

\* Task::activate with its context check.
activate_task(k, u) ==
    LET l == lock_cpu(k) IN
    IF ~l.ok THEN BadContext(k) ELSE activate(l.k, u)

\* Block the running task on no wait queue (the wait of park).
wait_no_queue(k) ==
    LET t == k.running_task IN
    wait_until_woken_up(
        [k EXCEPT !.wait_queue[t] = NoQueue,
                  !.payload[t] = SemaphorePermit,
                  !.wait_result[t] = "Ok",
                  !.current_wait[t] = t],
        t)

\* Task t is blocked in park.
is_parked(k, t) ==
    k.st[t] = "Waiting" /\ k.current_wait[t] = t /\ k.wait_queue[t] = NoQueue

\* Kernel::park: take the caller's park token if it is there, else block.
park(k) ==
    LET t == k.running_task
        l == lock_cpu(k)
    IN IF ~is_task_context(k) \/ ~l.ok THEN BadContext(k)
       ELSE IF l.k.park_token[t]
       THEN [k |-> [l.k EXCEPT !.park_token[t] = FALSE], result |-> "Ok"]
       ELSE [k |-> wait_no_queue(l.k), result |-> "Pending"]

\* Task::unpark: wake the task up if it is parked, else leave it the token.
unpark(k, u) ==
    LET l == lock_cpu(k) IN
    IF ~l.ok THEN BadContext(k)
    ELSE IF is_parked(l.k, u)
    THEN [k |-> complete_wait(l.k, u), result |-> "Ok"]
    ELSE [k |-> [l.k EXCEPT !.park_token[u] = TRUE], result |-> "Ok"]

\* An interrupt that does not look at the state of the task.
interrupt_task_any_state(k, u) ==
    LET l == lock_cpu(k) IN
    IF ~l.ok THEN BadContext(k)
    ELSE LET q == l.k.wait_queue[u]
             k1 == IF q \in Queues
                   THEN [l.k EXCEPT !.waits[q] = Remove(@, u)]
                   ELSE l.k
         IN [k |-> complete_wait([k1 EXCEPT !.wait_result[u] = "Interrupted"], u),
             result |-> "Ok"]

\* Task::interrupt: wake a Waiting task up with Interrupted, taking its
\* wait object out of the queue it is linked in; any other task is in the
\* wrong state.
interrupt_task(k, u) ==
    LET l == lock_cpu(k) IN
    IF ~l.ok THEN BadContext(k)
    ELSE IF l.k.st[u] # "Waiting" THEN [k |-> l.k, result |-> "BadObjectState"]
    ELSE LET q == l.k.wait_queue[u]
             k1 == IF q \in Queues
                   THEN [l.k EXCEPT !.waits[q] = Remove(@, u)]
                   ELSE l.k
         IN [k |-> complete_wait([k1 EXCEPT !.wait_result[u] = "Interrupted"], u),
             result |-> "Ok"]

\* A Task::current without its context check.
current_task_unchecked(k) == [k |-> k, result |-> k.running_task]

\* Task::current: the running task, in a task context only.
current_task(k) ==
    IF ~is_task_context(k) THEN BadContext(k)
    ELSE [k |-> k, result |-> k.running_task]

\* Kernel::boost_priority: only its context check is modelled; what it does
\* to the priority of the calling task is outside the model.
boost_priority(k) ==
    IF ~is_task_context(k) \/ is_cpu_lock_active(k) THEN BadContext(k)
    ELSE [k |-> k, result |-> "Ok"]

\* Kernel::exit_task with its context check.
exit_current_task(k) ==
    IF ~is_task_context(k) THEN BadContext(k)
    ELSE [k |-> exit_task(k), result |-> "None"]

\* The tick interrupt handler expiring the timeout of task t's wait; the
\* dispatch interrupt it may have pended is taken when it returns.
timer_tick(k, t) ==
    LET k1 == enter_cpu_lock([k EXCEPT !.handler = "tick"])
        k2 == unlock_cpu_and_check_preemption(wait_timeout_handler(k1, t))
    IN IF k2.phase = "panicked" THEN k2
       ELSE check_preemption_by_interrupt([k2 EXCEPT !.handler = "none"])

\* ------------------------------------------------------------------------
\* The time base and the timeouts
\* ------------------------------------------------------------------------

\* The time base, the timeout heap and the timer control block as one
\* record.
G ==
    [tick |-> tick, time_offset |-> time_offset, heap |-> heap, at |-> at,
     active |-> timer_active, period |-> timer_period]

CommitG(g) ==
    /\ tick' = g.tick
    /\ time_offset' = g.time_offset
    /\ heap' = g.heap
    /\ at' = g.at
    /\ timer_active' = g.active
    /\ timer_period' = g.period

\* Time32 arithmetic.
wrapping_add(a, b) == (a + b) % TimeModulus

wrapping_sub(a, b) == (a - b + TimeModulus) % TimeModulus

\* The system time: the tick counter seen through the offset set_time left.
system_time(g) == wrapping_add(g.tick, g.time_offset)

\* A set_time that moves the tick counter the timeouts are kept in.
set_time_moving_ticks(g, x) ==
    [g EXCEPT !.tick = wrapping_sub(x, g.time_offset)]

\* Kernel::set_time: the timeouts are absolute in the tick counter, so the
\* system time is changed by changing what is added to the counter.
set_time(g, x) == [g EXCEPT !.time_offset = wrapping_sub(x, g.tick)]

\* Timeout::is_linked.
is_linked(g, o) == InSeq(g.heap, o)

\* Timeout::at_raw and Timeout::set_at_raw.
at_raw(g, o) == g.at[o]

set_at_raw(g, o, v) == [g EXCEPT !.at[o] = v]

\* An is_due that compares the counts as they are.
is_due_unwrapped(g, o) == g.tick >= g.at[o]

\* An expiration time is due when it is the current time or before it:
\* behind it by TIME_USER_HEADROOM at most.
is_due(g, o) == wrapping_sub(g.tick, g.at[o]) <= TIME_USER_HEADROOM

\* The key the heap is ordered by: the expiration time counted from the
\* oldest time that is still told from the future.
heap_key(g, o) ==
    wrapping_sub(g.at[o], wrapping_sub(g.tick, TIME_USER_HEADROOM))

\* timeout::insert_timeout: behind every timeout that expires no later
\* (insertion order among equal expiration times).
insert_timeout(g, o) ==
    LET n == Cardinality({i \in 1..Len(g.heap) :
                             heap_key(g, g.heap[i]) <= heap_key(g, o)})
    IN [g EXCEPT !.heap = SubSeq(@, 1, n) \o <<o>> \o SubSeq(@, n + 1, Len(@))]

\* timeout::remove_timeout.
remove_timeout(g, o) == [g EXCEPT !.heap = Remove(@, o)]

\* Timeout::set_expiration_after: the expiration time is now + duration.
set_expiration_after(g, o, duration) ==
    [g EXCEPT !.at[o] = wrapping_add(g.tick, duration)]

\* Timeout::adjust_expiration: the expiration time moves by the duration.
adjust_expiration(g, o, duration) ==
    [g EXCEPT !.at[o] = wrapping_add(@, duration)]

\* Timeout::saturating_duration_until_timeout: zero if overdue.
saturating_duration_until_timeout(g, o) ==
    IF is_due(g, o) THEN 0 ELSE wrapping_sub(g.at[o], g.tick)

\* timeout::time32_from_duration applied to an Option<Duration>, as
\* Timer::set_delay and Timer::set_period do (None is infinity).
time32_from_duration(d) == IF d = None THEN BAD_DURATION32 ELSE d[1]

\* Kernel::sleep: the caller's timeout is linked to expire after d.
sleep(g, t, d) == insert_timeout(set_expiration_after(g, t, d), t)

\* The callback of a sleeper's timeout: the sleeper wakes up and its
\* timeout object is dropped.
sleep_timeout_handler(g, t) == set_at_raw(g, t, 0)

\* ------------------------------------------------------------------------
\* Timers (kernel/timer.rs)
\* ------------------------------------------------------------------------

\* The timer control block at configuration time: the timeout holds the
\* initial delay, unlinked.
timer_cb_init(attr) ==
    [tick |-> 0, time_offset |-> 0, heap |-> <<>>,
     at |-> [o \in Owners |->
                IF o = Timer0 THEN time32_from_duration(attr.delay) ELSE 0],
     active |-> FALSE, period |-> time32_from_duration(attr.period)]

\* init_timer.
init_timer(g, attr) ==
    IF attr.init_active
    THEN LET delay == at_raw(g, Timer0)
             g1 == IF delay # BAD_DURATION32 THEN insert_timeout(g, Timer0) ELSE g
         IN [g1 EXCEPT !.active = TRUE]
    ELSE g

\* start_timer.
start_timer(g) ==
    IF g.active THEN g
    ELSE LET delay == at_raw(g, Timer0)
             g1 == IF delay # BAD_DURATION32
                   THEN insert_timeout(set_expiration_after(g, Timer0, delay), Timer0)
                   ELSE g
         IN [g1 EXCEPT !.active = TRUE]

\* A stop_timer that leaves the timeout linked.
stop_timer_keeps_link(g) == [g EXCEPT !.active = FALSE]

\* A stop_timer that captures the expiration time, not the delay.
stop_timer_keeps_expiration(g) ==
    [(IF is_linked(g, Timer0) THEN remove_timeout(g, Timer0) ELSE g)
        EXCEPT !.active = FALSE]

\* A stop_timer that captures the difference as it is, overdue or not.
stop_timer_unsaturated(g) ==
    LET g1 == IF is_linked(g, Timer0)
              THEN LET delay == wrapping_sub(at_raw(g, Timer0), g.tick)
                   IN set_at_raw(remove_timeout(g, Timer0), Timer0, delay)
              ELSE g
    IN [g1 EXCEPT !.active = FALSE]

\* stop_timer.
stop_timer(g) ==
    LET g1 == IF is_linked(g, Timer0)
              THEN LET delay == saturating_duration_until_timeout(g, Timer0)
                   IN set_at_raw(remove_timeout(g, Timer0), Timer0, delay)
              ELSE g
    IN [g1 EXCEPT !.active = FALSE]

\* A set_timer_delay that leaves a linked timeout linked when the delay
\* becomes infinite.
set_timer_delay_keeps_link(g, delay) ==
    IF g.active /\ delay # BAD_DURATION32
    THEN insert_timeout(
             set_expiration_after(remove_timeout(g, Timer0), Timer0, delay), Timer0)
    ELSE IF is_linked(g, Timer0) THEN g
    ELSE set_at_raw(g, Timer0, delay)

\* A set_timer_delay that schedules the tick of a Dormant timer too.
set_timer_delay_scheduling(g, delay) ==
    LET g1 == IF is_linked(g, Timer0) THEN remove_timeout(g, Timer0) ELSE g
    IN IF delay # BAD_DURATION32
       THEN insert_timeout(set_expiration_after(g1, Timer0, delay), Timer0)
       ELSE set_at_raw(g1, Timer0, delay)

\* set_timer_delay.
set_timer_delay(g, delay) ==
    LET is_active == g.active
        g1 == IF is_linked(g, Timer0) THEN remove_timeout(g, Timer0) ELSE g
    IN IF is_active /\ delay # BAD_DURATION32
       THEN insert_timeout(set_expiration_after(g1, Timer0, delay), Timer0)
       ELSE set_at_raw(g1, Timer0, delay)

\* A set_timer_period that schedules the next tick anew, one period from now.
set_timer_period_rescheduling(g, p) ==
    LET g1 == [g EXCEPT !.period = p]
    IN IF is_linked(g, Timer0) /\ p # BAD_DURATION32
       THEN insert_timeout(
                set_expiration_after(remove_timeout(g1, Timer0), Timer0, p), Timer0)
       ELSE g1

\* set_timer_period.
set_timer_period(g, p) == [g EXCEPT !.period = p]

\* The IDs a caller passes to the services of a timer: the ID of the timer
\* and one that names none.
TimerIds == 1..2

\* KernelCfg2::get_timer_cb: the control block at index i of the pool, which
\* holds the one timer.
get_timer_cb(i) == IF i = 0 THEN Some(Timer0) ELSE None

\* Timer::timer_cb: the control block the ID names.
timer_cb(id) == get_timer_cb(id - 1)

\* A Timer::start that takes CPU Lock without looking at it.
timer_start_unchecked_context(k, g, id) ==
    IF timer_cb(id) = None THEN [g |-> g, result |-> "BadId"]
    ELSE [g |-> start_timer(g), result |-> "Ok"]

\* Timer::start: CPU Lock is taken first, then the ID is looked up.
timer_start(k, g, id) ==
    IF ~lock_cpu(k).ok THEN [g |-> g, result |-> "BadContext"]
    ELSE IF timer_cb(id) = None THEN [g |-> g, result |-> "BadId"]
    ELSE [g |-> start_timer(g), result |-> "Ok"]

\* Timer::stop.
timer_stop(k, g, id) ==
    IF ~lock_cpu(k).ok THEN [g |-> g, result |-> "BadContext"]
    ELSE IF timer_cb(id) = None THEN [g |-> g, result |-> "BadId"]
    ELSE [g |-> stop_timer(g), result |-> "Ok"]

\* A timer_timeout_handler that schedules the next tick whatever the period.
timer_timeout_handler_always_periodic(g) ==
    insert_timeout(adjust_expiration(g, Timer0, g.period), Timer0)

\* A timer_timeout_handler that schedules the next tick from the current
\* time.
timer_timeout_handler_from_now(g) ==
    IF g.period = BAD_DURATION32
    THEN set_at_raw(g, Timer0, BAD_DURATION32)
    ELSE insert_timeout(set_expiration_after(g, Timer0, g.period), Timer0)

\* timer_timeout_handler, up to the call of the application's callback:
\* the timeout has been unlinked by the caller.
\* A handler that links the timeout again where it was.
timer_timeout_handler_no_advance(g) ==
    IF g.period = BAD_DURATION32
    THEN set_at_raw(g, Timer0, BAD_DURATION32)
    ELSE insert_timeout(adjust_expiration(g, Timer0, 0), Timer0)

timer_timeout_handler(g) ==
    IF g.period = BAD_DURATION32
    THEN set_at_raw(g, Timer0, BAD_DURATION32)
    ELSE insert_timeout(adjust_expiration(g, Timer0, g.period), Timer0)

\* The tick handler has work to do: the earliest timeout is due.
timeout_due(g) == g.heap # <<>> /\ is_due(g, Head(g.heap))

\* One turn of the loop of the tick handler: the earliest timeout, which is
\* due, is unlinked and its callback is called.
expire_timeout(g) ==
    LET o == Head(g.heap)
        g1 == remove_timeout(g, o)
    IN IF o = Timer0 THEN timer_timeout_handler(g1)
       ELSE sleep_timeout_handler(g1, o)

\* ------------------------------------------------------------------------
\* The state machine
\* ------------------------------------------------------------------------

\* The boot context is in no service call.
NoHook == [op |-> "none", result |-> "None"]

NoOp == [name |-> "none", obj |-> "none", n |-> 0]

\* CfgBuilderTask::to_state: the initial state of a task.
to_state(active) == IF active THEN "PendingActivation" ELSE "Dormant"

\* The kernel after construction, the task table being chosen.
InitKernel ==
    /\ st = [t \in Tasks |-> to_state(t \in cfg.active)]
    /\ tsm = [t \in Tasks |-> "Uninit"]
    /\ running_task = NoTask
    /\ ready_queue = [p \in Levels |-> <<>>]
    /\ ready_bitmap = {}
    /\ waits = [q \in Queues |-> <<>>]
    /\ current_wait = [t \in Tasks |-> NoTask]
    /\ wait_queue = [t \in Tasks |-> NoQueue]
    /\ payload = [t \in Tasks |-> SemaphorePermit]
    /\ orig_bits = [t \in Tasks |-> {}]
    /\ wait_result = [t \in Tasks |-> "Ok"]
    /\ timeout = [t \in Tasks |-> FALSE]
    /\ value = [s \in Sems |-> SemTable[s].initial]
    /\ bits = {}
    /\ park_token = [t \in Tasks |-> FALSE]
    /\ cpu_lock = TRUE
    /\ pended = FALSE
    /\ lines = NoLines
    /\ handler = "none"
    /\ phase = "boot"
    /\ fault = "none"
    /\ pc = [t \in Tasks |-> "none"]
    /\ op = [t \in Tasks |-> NoOp]
    /\ result = [t \in Tasks |-> "None"]
    /\ arrivals = [q \in Queues |-> <<>>]
    /\ hook = NoHook

\* The history of the timer when its schedule was last set by `name`: the
\* first arrival time of the schedule and no callback yet. `dropped` counts
\* the expirations that were outstanding when the timer was stopped.
Schedule(g, name) ==
    [first |-> IF is_linked(g, Timer0) THEN g.at[Timer0] ELSE 0,
     calls |-> 0, burst |-> 0, last |-> name, dropped |-> 0]

\* The expirations of the timer that are outstanding: its arrival times up
\* to now, MaxCalls of them at most being counted.
outstanding(g) ==
    IF ~is_linked(g, Timer0) \/ ~is_due(g, Timer0) THEN 0
    ELSE IF g.period = BAD_DURATION32 THEN 1
    ELSE LET n == 1 + (wrapping_sub(g.tick, g.at[Timer0]) \div g.period)
         IN IF n > MaxCalls THEN MaxCalls ELSE n

\* The history after a stop, and after the start of a timer that is not
\* Active.
Stopped(g0, g) == [Schedule(g, "stop") EXCEPT !.dropped = outstanding(g0)]

Started(g) ==
    IF thist.last = "stop"
    THEN [Schedule(g, "restart") EXCEPT !.dropped = thist.dropped]
    ELSE Schedule(g, "start")

\* The time base at boot, the timer configured by attr having been
\* initialized.
InitTime(attr) ==
    LET g == init_timer(timer_cb_init(attr), attr) IN
    /\ tick = g.tick
    /\ time_offset = g.time_offset
    /\ heap = g.heap
    /\ at = g.at
    /\ timer_active = g.active
    /\ timer_period = g.period
    /\ thist = Schedule(g, "init")

Init ==
    /\ cfg \in TaskTables
    /\ InitKernel
    /\ InitTime(NoTimerAttr)

\* The system of time_set_event (no timer is used).
InitSleep ==
    /\ cfg = TimeTable
    /\ InitKernel
    /\ InitTime(NoTimerAttr)

\* A system with a timer of any of the configurations.
InitTimer ==
    /\ cfg = TimeTable
    /\ InitKernel
    /\ \E attr \in TimerAttrs : InitTime(attr)

\* The history of arrivals follows the wait objects themselves (the task's
\* state and its Wait's wait_queue field), not the queue's links.
IsWaiter(t, q) == st'[t] = "Waiting" /\ wait_queue'[t] = q

Arrive ==
    arrivals' =
        [q \in Queues |->
            LET kept == SelectSeq(arrivals[q], LAMBDA t : IsWaiter(t, q))
                new == {t \in Tasks : IsWaiter(t, q) /\ ~InSeq(arrivals[q], t)}
            IN IF new = {} THEN kept ELSE Append(kept, CHOOSE t \in new : TRUE)]

\* Task t is executing its body, outside any system call.
InTask(t) ==
    /\ phase = "run"
    /\ handler = "none"
    /\ ~cpu_lock
    /\ running_task = t
    /\ st[t] = "Running"
    /\ tsm[t] = "Running"

\* A system call of task t up to the release of CPU Lock: r is the state
\* and the result its body produced with CPU Lock active.
Call(t, o, r) ==
    /\ Commit(r.k)
    /\ op' = [op EXCEPT ![t] = o]
    /\ result' = [result EXCEPT ![t] = r.result]
    /\ pc' = [pc EXCEPT ![t] = IF r.result = "Pending" THEN "blocking" ELSE "call"]
    /\ Arrive
    /\ UNCHANGED cvars

\* The boot phase ends by dispatching the first task; the boot context is
\* discarded.
Boot ==
    /\ phase = "boot"
    /\ Commit(dispatch_first_task(K))
    /\ hook' = NoHook
    /\ UNCHANGED <<cfg, pc, op, result, arrivals, tvars>>

\* The dispatch interrupt is taken: the scheduler chooses the task to run
\* and a thread is spawned for it if it has none.
Dispatch ==
    /\ phase = "run"
    /\ handler = "dispatch"
    /\ LET k == dispatch(K)
           k1 == IF k.phase = "panicked" THEN k
                 ELSE check_preemption_by_interrupt([k EXCEPT !.handler = "none"])
       IN /\ Commit(k1)
          /\ pc' = [t \in Tasks |->
                      IF tsm[t] # "Running" /\ k1.tsm[t] = "Running"
                      THEN "user" ELSE pc[t]]
    /\ UNCHANGED <<cvars, op, result, arrivals>>

Activate(t, u) ==
    /\ InTask(t) /\ pc[t] = "user"
    /\ Call(t, [name |-> "activate", obj |-> u, n |-> 0],
            activate(enter_cpu_lock(K), u))

SemSignal(t, s, n) ==
    /\ InTask(t) /\ pc[t] = "user"
    /\ Call(t, [name |-> "signal", obj |-> s, n |-> n],
            signal(enter_cpu_lock(K), s, n))

SemWaitOne(t, s) ==
    /\ InTask(t) /\ pc[t] = "user"
    /\ Call(t, [name |-> "wait_one", obj |-> s, n |-> 0],
            wait_one(enter_cpu_lock(K), s))

SemWaitOneTimeout(t, s, zero) ==
    /\ InTask(t) /\ pc[t] = "user"
    /\ Call(t, [name |-> "wait_one_timeout", obj |-> s, n |-> 0],
            wait_one_timeout(enter_cpu_lock(K), s, zero))

SemPollOne(t, s) ==
    /\ InTask(t) /\ pc[t] = "user"
    /\ Call(t, [name |-> "poll_one", obj |-> s, n |-> 0],
            poll_one(enter_cpu_lock(K), s))

SemDrain(t, s) ==
    /\ InTask(t) /\ pc[t] = "user"
    /\ Call(t, [name |-> "drain", obj |-> s, n |-> 0],
            [k |-> drain(enter_cpu_lock(K), s), result |-> "Ok"])

EventSet(t, g, mask) ==
    /\ InTask(t) /\ pc[t] = "user"
    /\ Call(t, [name |-> "set", obj |-> g, n |-> 0],
            [k |-> event_group_set(enter_cpu_lock(K), g, mask), result |-> "Ok"])

EventClear(t, g, mask) ==
    /\ InTask(t) /\ pc[t] = "user"
    /\ Call(t, [name |-> "clear", obj |-> g, n |-> 0],
            [k |-> event_group_clear(enter_cpu_lock(K), g, mask), result |-> "Ok"])

EventWait(t, g, pl) ==
    /\ InTask(t) /\ pc[t] = "user"
    /\ LET k == event_group_wait(enter_cpu_lock(K), g, pl) IN
       Call(t, [name |-> "wait", obj |-> g, n |-> 0],
            [k |-> k, result |-> IF k.st[t] = "Waiting" THEN "Pending" ELSE "Ok"])

\* A service that wakes up every waiter of a wait queue.
WakeUpAll(t, q) ==
    /\ InTask(t) /\ pc[t] = "user"
    /\ Call(t, [name |-> "wake_up_all", obj |-> q, n |-> 0],
            [k |-> wake_up_all(enter_cpu_lock(K), q).k, result |-> "Ok"])

\* The system call releases CPU Lock; the dispatch interrupt is taken at
\* once if the call blocked the task or made a higher-priority task ready.
\* `op`, `result` and `orig_bits` describe a call only while the task is
\* inside it.
Unlock(t) ==
    /\ phase = "run" /\ handler = "none" /\ cpu_lock
    /\ running_task = t
    /\ pc[t] \in {"call", "blocking"}
    /\ LET k == unlock_cpu_and_check_preemption(K) IN
       Commit(IF pc[t] = "blocking" THEN k ELSE [k EXCEPT !.orig_bits[t] = {}])
    /\ pc' = [pc EXCEPT ![t] = IF @ = "blocking" THEN "blocked" ELSE "user"]
    /\ op' = [op EXCEPT ![t] = IF pc[t] = "blocking" THEN @ ELSE NoOp]
    /\ result' = [result EXCEPT ![t] = IF pc[t] = "blocking" THEN @ ELSE "None"]
    /\ UNCHANGED <<cvars, arrivals>>

\* A woken task is running again: its wait returns with the result the
\* waker left, and its timeout, if any, is unlinked.
WaitReturn(t) ==
    /\ InTask(t) /\ pc[t] = "blocked"
    /\ LET k == wait_inner_resume(enter_cpu_lock(K), t) IN
       Commit([k EXCEPT !.timeout[t] = FALSE, !.wait_result[t] = "Ok"])
    /\ result' = [result EXCEPT ![t] = wait_result[t]]
    /\ pc' = [pc EXCEPT ![t] = "call"]
    /\ UNCHANGED <<cvars, op, arrivals>>

\* The running task exits (or returns from its entry point).
ExitTask(t) ==
    /\ InTask(t) /\ pc[t] = "user"
    /\ Commit(exit_task(K))
    /\ pc' = [pc EXCEPT ![t] = "none"]
    /\ op' = [op EXCEPT ![t] = NoOp]
    /\ result' = [result EXCEPT ![t] = "None"]
    /\ UNCHANGED <<cvars, arrivals>>

\* The timeout of task t's wait expires: the tick interrupt is taken.
TimeoutTick(t) ==
    /\ phase = "run" /\ handler = "none" /\ ~cpu_lock
    /\ timeout[t]
    /\ Commit(timer_tick(K, t))
    /\ Arrive
    /\ UNCHANGED <<cvars, pc, op, result>>

\* `op` and `result` describe a call only while the task is inside it or
\* holds CPU Lock: a successful release_cpu_lock returns the task to plain
\* task code.

\* Task t is executing its body, with or without CPU Lock of its own.
TaskCode(t) ==
    /\ phase = "run"
    /\ handler = "none"
    /\ running_task = t
    /\ st[t] = "Running"
    /\ tsm[t] = "Running"
    /\ pc[t] \in {"user", "locked"}
    /\ cpu_lock <=> pc[t] = "locked"

\* A service that returns at once, CPU Lock not having been taken.
Return(t, o, r) ==
    /\ Commit(r.k)
    /\ op' = [op EXCEPT ![t] = o]
    /\ result' = [result EXCEPT ![t] = r.result]
    /\ UNCHANGED <<cvars, pc, arrivals>>

\* A service of task t: it fails at once in a disallowed context, else its
\* body runs with CPU Lock active.
Syscall(t, o, r) ==
    IF r.result = "BadContext" THEN Return(t, o, r) ELSE Call(t, o, r)

AcquireCpuLock(t) ==
    /\ TaskCode(t)
    /\ LET r == acquire_cpu_lock(K) IN
       /\ Commit(r.k)
       /\ result' = [result EXCEPT ![t] = r.result]
       /\ pc' = [pc EXCEPT ![t] = IF r.result = "Ok" THEN "locked" ELSE @]
    /\ op' = [op EXCEPT ![t] = [name |-> "acquire_cpu_lock", obj |-> "none", n |-> 0]]
    /\ UNCHANGED <<cvars, arrivals>>

ReleaseCpuLock(t) ==
    /\ TaskCode(t)
    /\ LET r == release_cpu_lock(K) IN
       /\ Commit(r.k)
       /\ result' = [result EXCEPT ![t] = IF r.result = "Ok" THEN "None" ELSE r.result]
       /\ pc' = [pc EXCEPT ![t] = IF r.result = "Ok" THEN "user" ELSE @]
       /\ op' = [op EXCEPT ![t] =
                    IF r.result = "Ok" THEN NoOp
                    ELSE [name |-> "release_cpu_lock", obj |-> "none", n |-> 0]]
    /\ UNCHANGED <<cvars, arrivals>>

Park(t) ==
    /\ TaskCode(t)
    /\ Syscall(t, [name |-> "park", obj |-> "none", n |-> 0], park(K))

\* unpark of a task that is not Dormant.
Unpark(t, u) ==
    /\ TaskCode(t)
    /\ st[u] # "Dormant"
    /\ Syscall(t, [name |-> "unpark", obj |-> u, n |-> 0], unpark(K, u))

Interrupt(t, u) ==
    /\ TaskCode(t)
    /\ Syscall(t, [name |-> "interrupt", obj |-> u, n |-> 0], interrupt_task(K, u))

\* Task::activate from task code, with or without CPU Lock.
ActivateTask(t, u) ==
    /\ TaskCode(t)
    /\ Syscall(t, [name |-> "activate", obj |-> u, n |-> 0], activate_task(K, u))

\* The services a startup hook calls in the boot context.
HookServices == {"boost_priority", "exit_task", "park", "current"}

HookCall(o) ==
    /\ phase = "boot"
    /\ LET r == CASE o = "boost_priority" -> boost_priority(K)
                  [] o = "exit_task" -> exit_current_task(K)
                  [] o = "park" -> park(K)
                  [] o = "current" -> current_task(K)
       IN /\ Commit(r.k)
          /\ hook' = [op |-> o, result |-> r.result]
    /\ UNCHANGED <<cfg, pc, op, result, arrivals, tvars>>

\* What no step of the time base changes.
taskvars == <<cfg, kvars, pc, op, result, arrivals, hook>>

\* A task runs with CPU Lock inactive: it can call a service, and an
\* interrupt can be taken.
InService ==
    /\ phase = "run"
    /\ handler = "none"
    /\ ~cpu_lock
    /\ running_task # NoTask

\* A tick passes. No linked timeout may fall out of the range in which an
\* overdue expiration time is told from a future one.
Advance ==
    /\ \A i \in 1..Len(heap) : heap_key(G, heap[i]) > 0
    /\ tick' = wrapping_add(tick, 1)
    /\ UNCHANGED <<time_offset, heap, at, timer_active, timer_period, thist, taskvars>>

\* The tick interrupt is taken: a timeout is due.
TickEnter ==
    /\ InService
    /\ timeout_due(G)
    /\ Commit([K EXCEPT !.handler = "tick"])
    /\ thist' = [thist EXCEPT !.burst = 0]
    /\ UNCHANGED <<cfg, pc, op, result, arrivals, hook>>
    /\ UNCHANGED <<tick, time_offset, heap, at, timer_active, timer_period>>

\* The history after a callback of the timer: one more call of the
\* schedule and of this run of the tick handler. A schedule of MaxCalls
\* calls is counted anew from the arrival served.
Called ==
    LET b == IF thist.burst < MaxCalls THEN thist.burst + 1 ELSE thist.burst IN
    IF thist.calls = MaxCalls
    THEN [first |-> at[Timer0], calls |-> 1, burst |-> b, last |-> "expire",
          dropped |-> 0]
    ELSE [first |-> thist.first, calls |-> thist.calls + 1, burst |-> b,
          last |-> "expire", dropped |-> thist.dropped]

\* The tick handler expires the earliest timeout, which is due.
TickExpire ==
    /\ phase = "run"
    /\ handler = "tick"
    /\ timeout_due(G)
    /\ CommitG(expire_timeout(G))
    /\ thist' = IF Head(heap) = Timer0 THEN Called ELSE thist
    /\ UNCHANGED taskvars

\* The tick handler returns: no timeout is due.
TickReturn ==
    /\ phase = "run"
    /\ handler = "tick"
    /\ ~timeout_due(G)
    /\ Commit([K EXCEPT !.handler = "none"])
    /\ UNCHANGED <<cfg, pc, op, result, arrivals, hook, tvars>>

\* Timer::start.
TimerStart ==
    /\ InService
    /\ LET g == start_timer(G) IN
       /\ CommitG(g)
       /\ thist' = IF timer_active THEN thist ELSE Started(g)
    /\ UNCHANGED taskvars

\* Timer::stop.
TimerStop ==
    /\ InService
    /\ LET g == stop_timer(G) IN
       /\ CommitG(g)
       /\ thist' = IF timer_active THEN Stopped(G, g) ELSE thist
    /\ UNCHANGED taskvars

\* Timer::set_delay.
TimerSetDelay(d) ==
    /\ InService
    /\ LET g == set_timer_delay(G, time32_from_duration(d)) IN
       /\ CommitG(g)
       /\ thist' = Schedule(g, "set_delay")
    /\ UNCHANGED taskvars

\* Timer::set_period.
TimerSetPeriod(p) ==
    /\ InService
    /\ LET g == set_timer_period(G, time32_from_duration(p)) IN
       /\ CommitG(g)
       /\ thist' = Schedule(g, "set_period")
    /\ UNCHANGED taskvars

\* Timer::set_period called by the timer's callback: the tick handler has
\* unlinked the timeout, scheduled the next tick and released CPU Lock for
\* the callback.
CallbackSetPeriod(p) ==
    /\ phase = "run"
    /\ handler = "tick"
    /\ thist.last = "expire"
    /\ LET g == set_timer_period(G, time32_from_duration(p)) IN
       /\ CommitG(g)
       /\ thist' = [Schedule(g, "set_period") EXCEPT !.burst = thist.burst]
    /\ UNCHANGED taskvars

\* Timer::start or Timer::stop called by task t, with or without CPU Lock,
\* with any ID.
TimerCall(t, o, id) ==
    /\ TaskCode(t)
    /\ LET r == IF o = "start" THEN timer_start(K, G, id) ELSE timer_stop(K, G, id) IN
       /\ CommitG(r.g)
       /\ thist' = IF r.result # "Ok" \/ timer_active = (o = "start") THEN thist
                   ELSE Schedule(r.g, IF o = "stop" THEN "stop"
                                      ELSE IF thist.last = "stop" THEN "restart"
                                      ELSE "start")
       /\ op' = [op EXCEPT ![t] = [name |-> o, obj |-> id, n |-> 0]]
       /\ result' = [result EXCEPT ![t] = r.result]
    /\ UNCHANGED <<cfg, kvars, pc, arrivals, hook>>

\* Kernel::sleep of task t: its timeout is linked; waking it up is the
\* callback of the timeout.
Sleep(t, d) ==
    /\ InService
    /\ ~is_linked(G, t)
    /\ CommitG(sleep(G, t, d))
    /\ UNCHANGED <<thist, taskvars>>

\* Kernel::set_time.
SetTime(x) ==
    /\ InService
    /\ CommitG(set_time(G, x))
    /\ UNCHANGED <<thist, taskvars>>

Masks == SUBSET EventBits \ {{}}

Payloads == [bits : Masks, all : BOOLEAN, clear : BOOLEAN]

Next ==
    \/ Boot
    \/ Dispatch
    \/ \E t \in Tasks, u \in Tasks : Activate(t, u)
    \/ \E t \in Tasks, s \in Sems, n \in 1..MaxCount : SemSignal(t, s, n)
    \/ \E t \in Tasks, s \in Sems : SemWaitOne(t, s)
    \/ \E t \in Tasks, s \in Sems, zero \in BOOLEAN : SemWaitOneTimeout(t, s, zero)
    \/ \E t \in Tasks, s \in Sems : SemPollOne(t, s)
    \/ \E t \in Tasks, s \in Sems : SemDrain(t, s)
    \/ \E t \in Tasks : Unlock(t)
    \/ \E t \in Tasks : WaitReturn(t)
    \/ \E t \in Tasks : ExitTask(t)
    \/ \E t \in Tasks : TimeoutTick(t)

Spec == Init /\ [][Next]_vars

\* The wait-queue subsystem with every kind of wake-up: semaphore s1, the
\* event group, and the service that wakes up all waiters of a queue.
WaitPayloads ==
    { [bits |-> {1, 2}, all |-> FALSE, clear |-> TRUE],
      [bits |-> {1, 2}, all |-> TRUE, clear |-> FALSE],
      [bits |-> {2}, all |-> FALSE, clear |-> FALSE] }

NextWait ==
    \/ Boot
    \/ Dispatch
    \/ \E t \in Tasks, u \in Tasks : Activate(t, u)
    \/ \E t \in Tasks, n \in 1..MaxCount : SemSignal(t, "s1", n)
    \/ \E t \in Tasks : SemWaitOne(t, "s1")
    \/ \E t \in Tasks, zero \in BOOLEAN : SemWaitOneTimeout(t, "s1", zero)
    \/ \E t \in Tasks, g \in EventGroups, mask \in Masks : EventSet(t, g, mask)
    \/ \E t \in Tasks, g \in EventGroups : EventClear(t, g, EventBits)
    \/ \E t \in Tasks, g \in EventGroups, pl \in WaitPayloads : EventWait(t, g, pl)
    \/ \E t \in Tasks, q \in Queues : WakeUpAll(t, q)
    \/ \E t \in Tasks : Unlock(t)
    \/ \E t \in Tasks : WaitReturn(t)
    \/ \E t \in Tasks : ExitTask(t)
    \/ \E t \in Tasks : TimeoutTick(t)

SpecWait == Init /\ [][NextWait]_vars

\* The task services and the contexts they are called from: startup hooks,
\* task code, and task code that holds CPU Lock.
NextTask ==
    \/ \E o \in HookServices : HookCall(o)
    \/ Boot
    \/ Dispatch
    \/ \E t \in Tasks, u \in Tasks : ActivateTask(t, u)
    \/ \E t \in Tasks : AcquireCpuLock(t)
    \/ \E t \in Tasks : ReleaseCpuLock(t)
    \/ \E t \in Tasks : Park(t)
    \/ \E t \in Tasks, u \in Tasks : Unpark(t, u)
    \/ \E t \in Tasks, u \in Tasks : Interrupt(t, u)
    \/ \E t \in Tasks : SemWaitOne(t, "s1")
    \/ \E t \in Tasks, n \in 1..MaxCount : SemSignal(t, "s1", n)
    \/ \E t \in Tasks : Unlock(t)
    \/ \E t \in Tasks : WaitReturn(t)
    \/ \E t \in Tasks : ExitTask(t)

SpecTask == Init /\ [][NextTask]_vars

\* Sleeping tasks and set_time.
NextSleep ==
    \/ Boot
    \/ Dispatch
    \/ Advance
    \/ TickEnter
    \/ TickExpire
    \/ TickReturn
    \/ \E t \in Sleepers, d \in SleepDurations : Sleep(t, d)
    \/ \E j \in TimeShifts : SetTime(wrapping_add(tick, j))

SpecSleep == InitSleep /\ [][NextSleep]_vars

\* State::MAX_TICK_COUNT and State::MAX_TIMEOUT of the port.
MAX_TICK_COUNT == TimeModulus - 1

MAX_TIMEOUT == MAX_TICK_COUNT \div 2

\* The number the port adds to the time elapsed, so that the tick count
\* does not start at zero.
get_random_number == 12648430

\* State::tick_count: the microseconds since the origin, truncated, plus
\* the number above, wrapping.
tick_count(micros) ==
    wrapping_add(micros % TimeModulus, get_random_number % TimeModulus)

\* The durations slept for across the wrap-around: the shortest and the
\* longest timeout.
WrapDurations == {1, MAX_TIMEOUT}

\* The time base at boot, the tick count being read any time after the
\* origin was set up.
InitWrap ==
    /\ cfg = TimeTable
    /\ InitKernel
    /\ \E micros \in Ticks : tick = tick_count(micros)
    /\ time_offset = 0
    /\ heap = <<>>
    /\ at = [o \in Owners |-> 0]
    /\ timer_active = FALSE
    /\ timer_period = BAD_DURATION32
    /\ thist = [first |-> 0, calls |-> 0, burst |-> 0, last |-> "init", dropped |-> 0]

\* Sleeping tasks while the tick count wraps around.
NextWrap ==
    \/ Boot
    \/ Dispatch
    \/ Advance
    \/ TickEnter
    \/ TickExpire
    \/ TickReturn
    \/ \E t \in Sleepers, d \in WrapDurations : Sleep(t, d)

SpecWrap == InitWrap /\ [][NextWrap]_vars

\* The timer and the services that act on it.
NextTimer ==
    \/ Boot
    \/ Dispatch
    \/ Advance
    \/ TickEnter
    \/ TickExpire
    \/ TickReturn
    \/ TimerStart
    \/ TimerStop
    \/ \E d \in Delays : TimerSetDelay(d)
    \/ \E p \in Periods : TimerSetPeriod(p)
    \/ \E p \in Periods : CallbackSetPeriod(p)

SpecTimer == InitTimer /\ [][NextTimer]_vars

\* The services of the interrupt lines.
LineServices == {"set_priority", "enable", "disable", "pend", "clear", "is_pending"}

\* The line numbers and priorities passed: two lines, the first two numbers
\* that name no line; a managed priority and the two nearest values that
\* are not managed.
LineNums == {0, 1, NUM_INTERRUPT_LINES, NUM_INTERRUPT_LINES + 1}

LinePriorities == {1, -1, InterruptPriorityMax}

\* A service of the interrupt lines called by task t, with or without CPU
\* Lock.
LineCall(t, o, num, priority) ==
    /\ TaskCode(t)
    /\ LET r == CASE o = "set_priority" -> set_interrupt_line_priority(K, num, priority)
                  [] o = "enable" -> enable_interrupt_line(K, num)
                  [] o = "disable" -> disable_interrupt_line(K, num)
                  [] o = "pend" -> pend_line(K, num)
                  [] o = "clear" -> clear_interrupt_line(K, num)
                  [] o = "is_pending" -> is_interrupt_line_pending(K, num)
       IN Return(t, [name |-> o, obj |-> num,
                     n |-> IF o = "set_priority" THEN priority ELSE 0], r)

\* The handler of an interrupt line returns.
LineReturn ==
    /\ phase = "run"
    /\ handler = "line"
    /\ Commit(check_preemption_by_interrupt([K EXCEPT !.handler = "none"]))
    /\ UNCHANGED <<cvars, pc, op, result, arrivals>>

\* The interrupt lines and the task that configures and pends them.
NextLines ==
    \/ Boot
    \/ Dispatch
    \/ \E t \in Tasks : AcquireCpuLock(t)
    \/ \E t \in Tasks : ReleaseCpuLock(t)
    \/ \E t \in Tasks, o \in LineServices, num \in LineNums, priority \in LinePriorities :
          LineCall(t, o, num, priority)
    \/ LineReturn

SpecLines == InitSleep /\ [][NextLines]_vars

\* The timer started and stopped by tasks in any context, with any ID.
NextTimerCall ==
    \/ Boot
    \/ Dispatch
    \/ Advance
    \/ TickEnter
    \/ TickExpire
    \/ TickReturn
    \/ \E t \in Tasks : AcquireCpuLock(t)
    \/ \E t \in Tasks : ReleaseCpuLock(t)
    \/ \E t \in Tasks, o \in {"start", "stop"}, id \in TimerIds : TimerCall(t, o, id)

\* A system with a periodic timer, configured Active or Dormant.
InitTimerCall ==
    /\ cfg = TimeTable
    /\ InitKernel
    /\ \E a \in BOOLEAN :
          InitTime([init_active |-> a, delay |-> Some(3), period |-> Some(4)])

SpecTimerCall == InitTimerCall /\ [][NextTimerCall]_vars

\* ------------------------------------------------------------------------
\* Properties
\* ------------------------------------------------------------------------

\* Task code runs: CPU Lock is inactive and no interrupt handler executes.
TaskLevel == phase = "run" /\ ~cpu_lock /\ handler = "none"

Runnable(t) == st[t] \in {"Ready", "Running", "PendingActivation"}

\* C1 (state part): whenever CPU Lock is inactive and no interrupt handler
\* is executing, there is a Running task for every Ready task and its
\* priority is not lower (its level not numerically greater) than that of
\* the Ready task.
NoReadyAboveRunning ==
    TaskLevel =>
        \A t \in Tasks :
            st[t] = "Ready" =>
                /\ running_task # NoTask
                /\ st[running_task] = "Running"
                /\ cfg.priority[running_task] <= cfg.priority[t]

\* C1 (step part): the dispatcher never replaces the Running task by a task
\* of lower priority.
NoReplacementByLower ==
    (/\ Dispatch
     /\ running_task # NoTask
     /\ st[running_task] = "Running"
     /\ running_task' # NoTask
     /\ running_task' # running_task)
        => cfg.priority[running_task'] <= cfg.priority[running_task]

\* C1: fixed-priority scheduling safety: no Ready task has a strictly
\* higher priority than the Running task while task code runs, and
\* choose_running_task never replaces the Running task by a Ready task of
\* lower priority.
SchedulingSafety == []NoReadyAboveRunning /\ [][NoReplacementByLower]_vars

\* A task runs while a task of strictly lower priority, preempted, is Ready.
SchedulingSafetyWitness ==
    /\ TaskLevel
    /\ running_task # NoTask
    /\ \E t \in Tasks :
          /\ st[t] = "Ready"
          /\ tsm[t] = "Running"
          /\ cfg.priority[running_task] < cfg.priority[t]

\* Task t is inside a successful activate call on a Dormant task u of
\* strictly higher priority; CPU Lock is still active.
ActivatedHigher(t, u) ==
    /\ pc[t] = "call"
    /\ running_task = t
    /\ op[t].name = "activate"
    /\ op[t].obj = u
    /\ result[t] = "Ok"
    /\ cfg.priority[u] < cfg.priority[t]

\* C2 (a): when the activate call releases CPU Lock, the caller does not
\* go on: the dispatch interrupt is taken at once.
ActivateYields ==
    \A t \in Tasks, u \in Tasks :
        (ActivatedHigher(t, u) /\ Unlock(t)) =>
            /\ handler' = "dispatch"
            /\ st'[u] = "PendingActivation"
            /\ ~InTask(t)'

\* C2 (b): that dispatch starts the activated task and puts the caller back
\* in the ready queue.
DispatchStartsActivated ==
    \A t \in Tasks, u \in Tasks :
        (/\ Dispatch
         /\ running_task = t /\ st[t] = "Running"
         /\ st[u] = "PendingActivation"
         /\ cfg.priority[u] < cfg.priority[t]) =>
            /\ running_task' = u
            /\ st'[u] = "Running"
            /\ tsm'[u] = "Running"
            /\ pc'[u] = "user"
            /\ st'[t] = "Ready"

\* C2 (c): a task executes only while no task of strictly higher priority
\* is activated and neither exited (Dormant) nor blocked (Waiting).
ResumesAfterExitOrBlock ==
    \A t \in Tasks, u \in Tasks :
        (InTask(t) /\ cfg.priority[u] < cfg.priority[t]) =>
            st[u] \in {"Dormant", "Waiting"}

\* C2 (d): a task leaves Dormant only by a successful activate call on it,
\* and it is then pending activation, not running.
DormantUntilActivated ==
    \A u \in Tasks :
        (st[u] = "Dormant" /\ st'[u] # "Dormant") =>
            /\ st'[u] = "PendingActivation"
            /\ tsm'[u] = tsm[u]
            /\ \E t \in Tasks :
                  /\ InTask(t)
                  /\ op'[t] = [name |-> "activate", obj |-> u, n |-> 0]
                  /\ result'[t] = "Ok"

\* C2: preemption on activation: when a running task activates a Dormant
\* task of strictly higher priority, the activated task starts running
\* before the activate call returns to the caller, and the caller resumes
\* only after the activated task exits or blocks; a Dormant task that is
\* never activated never runs.
PreemptionOnActivation ==
    /\ [][ActivateYields]_vars
    /\ [][DispatchStartsActivated]_vars
    /\ []ResumesAfterExitOrBlock
    /\ [][DormantUntilActivated]_vars

\* The activated task of higher priority runs its first instruction while
\* its activator, preempted inside the call, is Ready.
PreemptionOnActivationWitness ==
    \E t \in Tasks, u \in Tasks :
        /\ InTask(u) /\ pc[u] = "user"
        /\ cfg.priority[u] < cfg.priority[t]
        /\ st[t] = "Ready" /\ tsm[t] = "Running"
        /\ t \in cfg.active /\ u \notin cfg.active
        /\ \A w \in Tasks \ {t, u} : st[w] = "Dormant" /\ tsm[w] = "Uninit"

\* The number of links of task t's wait object in queue q.
Links(q, t) == Cardinality({i \in 1..Len(waits[q]) : waits[q][i] = t})

\* Task t's current_wait is set and the wait object it refers to is linked
\* in exactly one wait queue, the one its wait_queue field names.
LinkedInItsQueue(t) ==
    /\ current_wait[t] = t
    /\ wait_queue[t] \in Queues
    /\ \A q \in Queues : Links(q, t) = IF q = wait_queue[t] THEN 1 ELSE 0

\* C3: wait-record invariant: after any sequence of wait, wake_up_one,
\* wake_up_all and wake_up_all_conditional calls, a task is Waiting if and
\* only if its current_wait is set and the wait record it refers to is
\* linked in exactly one wait queue, the one named by the record's
\* wait_queue field; no wait queue contains a record of a task that is not
\* Waiting.
WaitRecordInvariant ==
    /\ \A t \in Tasks : st[t] = "Waiting" <=> LinkedInItsQueue(t)
    /\ \A t \in Tasks :
          st[t] # "Waiting" => \A q \in Queues : Links(q, t) = 0

\* A conditional wake-up has taken one waiter out of the event group's queue
\* and left another, which arrived earlier, linked in it; the task that set
\* the bits is still inside the call.
WaitRecordInvariantWitness ==
    \E a \in Tasks, b \in Tasks, c \in Tasks :
        /\ st[a] = "Waiting" /\ waits["eg"] = <<a>> /\ LinkedInItsQueue(a)
        /\ st[b] = "Ready" /\ wait_queue[b] = "eg" /\ pc[b] = "blocked"
        /\ arrivals["eg"] = <<a>>
        /\ pc[c] = "call" /\ op[c].name = "set"

\* The wait queues with FIFO policy.
FifoQueues == {s \in Sems : SemTable[s].queue_order = "Fifo"}

\* The position of x in a sequence that contains it once.
Pos(seq, x) == CHOOSE i \in 1..Len(seq) : seq[i] = x

\* The step is a signal on semaphore s, that is, a run of wake_up_one calls
\* on its wait queue.
SignalStep(s) ==
    \E t \in Tasks :
        /\ pc[t] = "user" /\ pc'[t] = "call"
        /\ op'[t].name = "signal" /\ op'[t].obj = s

\* The tasks the step takes out of the wait queue of s.
Woken(s) ==
    {t \in Tasks : st[t] = "Waiting" /\ wait_queue[t] = s /\ st'[t] # "Waiting"}

\* C4 (state part): a FIFO queue holds its waiters in the order in which
\* they entered it.
FifoQueueOrder == \A q \in FifoQueues : waits[q] = arrivals[q]

\* C4 (step part): the wake_up_one calls of a step wake the tasks that
\* entered the queue first, and in that order: the woken tasks are a prefix
\* of the arrivals, they leave the rest in place, and two of them of equal
\* priority enter the ready queue in the order of their arrival.
FifoWakeUpOrder ==
    \A q \in FifoQueues :
        SignalStep(q) =>
            LET n == Cardinality(Woken(q)) IN
            /\ Woken(q) = {arrivals[q][i] : i \in 1..n}
            /\ waits'[q] = SubSeq(arrivals[q], n + 1, Len(arrivals[q]))
            /\ \A a \in Woken(q), b \in Woken(q) :
                  (/\ Pos(arrivals[q], a) < Pos(arrivals[q], b)
                   /\ cfg.priority[a] = cfg.priority[b]) =>
                      /\ st'[a] = "Ready" /\ st'[b] = "Ready"
                      /\ Pos(ready_queue'[cfg.priority[a]], a)
                            < Pos(ready_queue'[cfg.priority[a]], b)

\* C4: FIFO wait queue: on a wait queue with FIFO policy, successive
\* wake_up_one calls wake the waiting tasks in exactly the order in which
\* they entered the queue, for every interleaving of wait and wake_up_one
\* calls.
FifoWaitQueue == []FifoQueueOrder /\ [][FifoWakeUpOrder]_vars

\* Of two tasks that entered the FIFO queue, a signal has woken one and the
\* other is now at the head.
FifoWaitQueueWitness ==
    \E a \in Tasks, b \in Tasks, c \in Tasks :
        /\ pc[c] = "call" /\ op[c].name = "signal" /\ op[c].obj = "s2"
        /\ st[a] = "Ready" /\ wait_queue[a] = "s2" /\ pc[a] = "blocked"
        /\ wait_result[a] = "Ok"
        /\ st[b] = "Waiting" /\ waits["s2"] = <<b>>

\* The wait queues with TaskPriority policy.
PriorityQueues == {s \in Sems : SemTable[s].queue_order = "TaskPriority"}

\* C5: priority-ordered wait queue: on a wait queue whose policy is
\* TaskPriority a waiter is inserted before the first entry of strictly
\* lower priority, so the queue is sorted by priority, its head (the task
\* wake_up_one wakes) is a highest-priority waiter, and waiters of equal
\* priority are in the order in which they started waiting.
PriorityWaitQueue ==
    \A q \in PriorityQueues :
        \A i \in 1..Len(waits[q]), j \in 1..Len(waits[q]) :
            i < j =>
                LET a == waits[q][i]
                    b == waits[q][j]
                IN /\ cfg.priority[a] <= cfg.priority[b]
                   /\ cfg.priority[a] = cfg.priority[b] =>
                         Pos(arrivals[q], a) < Pos(arrivals[q], b)

\* C6: semaphore bound: for every semaphore s, after any sequence of
\* signal, signal_one, wait_one, wait_one_timeout, poll_one and drain calls,
\* successful or failing, 0 <= s.value <= s.maximum.
SemaphoreBound ==
    \A s \in Sems : 0 <= value[s] /\ value[s] <= SemTable[s].maximum

\* A failing signal(2) has left the semaphore at its maximum while the other
\* semaphore holds no permit.
SemaphoreBoundWitness ==
    \E t \in Tasks, s \in Sems :
        /\ pc[t] = "call" /\ op[t].name = "signal" /\ op[t].obj = s
        /\ op[t].n = 2
        /\ result[t] = "QueueOverflow"
        /\ value[s] = SemTable[s].maximum
        /\ \E r \in Sems \ {s} : value[r] = 0

\* C7: no idle permits while tasks wait: in every reachable state, if a
\* semaphore's value is greater than 0 then its wait queue is empty.
NoIdlePermits ==
    \A s \in Sems : value[s] > 0 => waits[s] = <<>>

\* A signal(2) has served the only waiter and added the permit left over
\* to the value.
NoIdlePermitsWitness ==
    \E t \in Tasks, w \in Tasks, s \in Sems :
        /\ pc[t] = "call" /\ op[t].name = "signal" /\ op[t].obj = s
        /\ op[t].n = 2 /\ result[t] = "Ok"
        /\ st[w] = "Ready" /\ wait_queue[w] = s /\ pc[w] = "blocked"
        /\ wait_result[w] = "Ok"
        /\ value[s] = 1 /\ waits[s] = <<>>

Min(a, b) == IF a <= b THEN a ELSE b

\* Task t was woken up with a permit and has not yet returned from its wait
\* on semaphore s.
HoldsPermit(t, s) ==
    /\ pc[t] = "blocked"
    /\ wait_queue[t] = s
    /\ st[t] # "Waiting"
    /\ wait_result[t] = "Ok"

\* C8 (signal): a signal(n) with m = min(n, number of waiters) hands a
\* permit to each of the first m waiters, which become Ready with their
\* wait completed, and adds only the n - m permits left to the value; if
\* every permit went to a waiter the value does not change.
HandOffBeforeCount ==
    \A t \in Tasks :
        (pc[t] = "user" /\ pc'[t] = "call" /\ op'[t].name = "signal") =>
            LET s == op'[t].obj
                n == op'[t].n
                q == waits[s]
                m == Min(n, Len(q))
            IN /\ \A i \in 1..m :
                     /\ st'[q[i]] = "Ready"
                     /\ current_wait'[q[i]] = NoTask
                     /\ pc'[q[i]] = "blocked"
                     /\ wait_queue'[q[i]] = s
                     /\ wait_result'[q[i]] = "Ok"
               /\ waits'[s] = SubSeq(q, m + 1, Len(q))
               /\ value'[s] = Min(SemTable[s].maximum, value[s] + (n - m))
               /\ m = n => value'[s] = value[s]

\* C8 (after the signal): whatever other tasks do, a waiter that was handed
\* a permit keeps it until it returns, it returns Ok, and its return takes
\* nothing from the value.
PermitNotTakenAway ==
    \A t \in Tasks, s \in Sems :
        HoldsPermit(t, s) =>
            \/ HoldsPermit(t, s)'
            \/ /\ pc'[t] = "call"
               /\ result'[t] = "Ok"
               /\ value' = value

\* C8: permit hand-off before count: signal delivers each released permit
\* to the head waiter before adding anything to the value, so a task that
\* was in the wait queue before signal is guaranteed to receive a permit; a
\* poll_one or wait_one issued by another task after that signal can never
\* take the permit away from the earlier waiter.
PermitHandOff == [][HandOffBeforeCount]_vars /\ [][PermitNotTakenAway]_vars

\* After a signal handed its permit to a waiter, a poll_one of another task
\* has found no permit, and the waiter still holds its own.
PermitHandOffWitness ==
    \E t \in Tasks, u \in Tasks, s \in Sems :
        /\ HoldsPermit(t, s)
        /\ u # t
        /\ pc[u] = "call" /\ op[u].name = "poll_one" /\ op[u].obj = s
        /\ result[u] = "Timeout"
        /\ value[s] = 0

\* C9 (step): for a signal(n) of which m permits go to waiters, the call
\* returns QueueOverflow exactly when value + (n - m) exceeds the maximum,
\* and then the value is the maximum; signal(1) on a semaphore at its
\* maximum returns QueueOverflow and leaves the value at the maximum.
OverflowOnSignal ==
    \A t \in Tasks :
        (pc[t] = "user" /\ pc'[t] = "call" /\ op'[t].name = "signal") =>
            LET s == op'[t].obj
                n == op'[t].n
                m == Min(n, Len(waits[s]))
                max == SemTable[s].maximum
            IN /\ value[s] + (n - m) > max =>
                     result'[t] = "QueueOverflow" /\ value'[s] = max
               /\ value[s] + (n - m) <= max =>
                     result'[t] = "Ok" /\ value'[s] = value[s] + (n - m)
               /\ (n = 1 /\ value[s] = max) =>
                     result'[t] = "QueueOverflow" /\ value'[s] = max

\* C9: semaphore overflow: signal(1) on a semaphore whose value equals its
\* maximum returns QueueOverflow and the value stays at the maximum; more
\* generally signal(n) returns QueueOverflow whenever the permits left
\* after serving waiters would push the value above the maximum.
SemaphoreOverflow == [][OverflowOnSignal]_vars

\* A signal(1) on a semaphore at its maximum has returned QueueOverflow.
SemaphoreOverflowWitness ==
    \E t \in Tasks, s \in Sems :
        /\ pc[t] = "call" /\ op[t].name = "signal" /\ op[t].obj = s
        /\ op[t].n = 1
        /\ result[t] = "QueueOverflow"
        /\ value[s] = SemTable[s].maximum

\* The semaphore of the hand-off scenario: initial 0, maximum 1.
HandOffSem == "s1"

\* Task lo is inside a signal_one on the scenario's semaphore.
InSignalOne(lo) ==
    /\ pc[lo] = "call"
    /\ op[lo] = [name |-> "signal", obj |-> HandOffSem, n |-> 1]

\* The scenario after the wake-up: Hi, of higher priority than Lo, has been
\* handed the permit and has not yet returned from wait_one; Lo has not
\* exited; no other task is active.
HandedOver(lo, hi) ==
    /\ HoldsPermit(hi, HandOffSem)
    /\ op[hi].name = "wait_one"
    /\ cfg.priority[hi] < cfg.priority[lo]
    /\ st[lo] \in {"Running", "Ready"}
    /\ \A w \in Tasks \ {lo, hi} : st[w] = "Dormant"

\* C10 (a): Lo's signal_one makes the blocked Hi Ready and does not yield
\* inside the call: Lo is still the Running task, CPU Lock is active, no
\* dispatch is pended or in progress, and the value is 0.
WakeUpWithoutYield ==
    \A lo \in Tasks, hi \in Tasks :
        (/\ InTask(lo) /\ pc[lo] = "user"
         /\ InSignalOne(lo)'
         /\ waits[HandOffSem] # <<>> /\ Head(waits[HandOffSem]) = hi
         /\ op[hi].name = "wait_one"
         /\ cfg.priority[hi] < cfg.priority[lo]) =>
            /\ st'[hi] = "Ready"
            /\ HoldsPermit(hi, HandOffSem)'
            /\ running_task' = lo /\ st'[lo] = "Running"
            /\ cpu_lock' /\ ~pended' /\ handler' = "none"
            /\ result'[lo] = "Ok"
            /\ value'[HandOffSem] = 0

\* C10 (b): Hi preempts Lo exactly when Lo's call releases CPU Lock: the
\* next step of the scenario is the Unlock of Lo's call, which enters the
\* dispatch handler with Lo still the running task, and the step after it
\* is the dispatch, which makes Hi the Running task and Lo Ready.
PreemptAtUnlock ==
    \A lo \in Tasks, hi \in Tasks :
        (/\ HandedOver(lo, hi)
         /\ running_task = lo /\ st[lo] = "Running") =>
            /\ (InSignalOne(lo) /\ cpu_lock) =>
                    /\ Unlock(lo)
                    /\ handler' = "dispatch"
                    /\ running_task' = lo
                    /\ st'[hi] = "Ready"
            /\ ~cpu_lock =>
                    /\ Dispatch
                    /\ running_task' = hi /\ st'[hi] = "Running"
                    /\ st'[lo] = "Ready"
                    /\ InTask(hi)'

\* C10 (c): once the permit is handed over the value does not change
\* until Hi returns, and Hi returns Ok from wait_one.
ReturnsOkValueKept ==
    \A lo \in Tasks, hi \in Tasks :
        HandedOver(lo, hi) =>
            /\ value'[HandOffSem] = value[HandOffSem]
            /\ \/ HandedOver(lo, hi)'
               \/ /\ WaitReturn(hi)
                  /\ pc'[hi] = "call" /\ result'[hi] = "Ok"

\* C10: semaphore hand-off scenario: with semaphore s (initial 0, maximum
\* 1), a higher-priority task Hi blocked in wait_one and a lower-priority
\* task Lo calling signal_one, the wake-up makes Hi Ready without yielding
\* the processor inside the call; Hi preempts Lo exactly when Lo's call
\* releases CPU Lock; finally s.value = 0 and Hi has returned Ok from
\* wait_one.
SemaphoreHandOff ==
    /\ [][WakeUpWithoutYield]_vars
    /\ [][PreemptAtUnlock]_vars
    /\ [][ReturnsOkValueKept]_vars

\* Hi, handed the permit by Lo's signal_one, has preempted Lo; the value is
\* 0 and the third task has never run.
SemaphoreHandOffWitness ==
    \E lo \in Tasks, hi \in Tasks :
        /\ InTask(hi) /\ HandedOver(lo, hi)
        /\ st[lo] = "Ready" /\ pc[lo] = "user"
        /\ value[HandOffSem] = 0
        /\ \A w \in Tasks \ {lo, hi} : tsm[w] = "Uninit"

\* The step is a call by task t of one of the services that are illegal
\* with CPU Lock held.
IllegalUnderLock(t) ==
    \/ Park(t)
    \/ \E u \in Tasks : ActivateTask(t, u) \/ Interrupt(t, u) \/ Unpark(t, u)

\* C11 (a): a task holds CPU Lock only after a successful acquire_cpu_lock.
LockedByAcquire ==
    \A t \in Tasks :
        (pc[t] # "locked" /\ pc'[t] = "locked") =>
            /\ AcquireCpuLock(t)
            /\ result'[t] = "Ok"
            /\ cpu_lock'

\* C11 (b): while it holds CPU Lock, the task's activate, interrupt, unpark
\* and park return BadContext, do not block, and change no task's status.
BadContextUnderLock ==
    \A t \in Tasks :
        (pc[t] = "locked" /\ IllegalUnderLock(t)) =>
            /\ result'[t] = "BadContext"
            /\ pc' = pc
            /\ st' = st
            /\ running_task' = t
            /\ cpu_lock'
            /\ UNCHANGED <<ready_queue, waits, current_wait, park_token, handler, pended>>

\* C11 (c): release_cpu_lock returns the task to plain task code, where
\* its park, finding no token, blocks: the task goes Waiting and gives the
\* processor up when the call releases CPU Lock.
ParkBlocksAfterRelease ==
    \A t \in Tasks :
        /\ (pc[t] = "locked" /\ ReleaseCpuLock(t)) =>
               pc'[t] = "user" /\ ~cpu_lock' /\ InTask(t)'
        /\ (pc[t] = "user" /\ ~park_token[t] /\ Park(t)) =>
               /\ result'[t] = "Pending"
               /\ pc'[t] = "blocking"
               /\ st'[t] = "Waiting"
        /\ (pc[t] = "blocking" /\ op[t].name = "park" /\ Unlock(t)) =>
               /\ pc'[t] = "blocked"
               /\ handler' = "dispatch"
               /\ st'[t] = "Waiting"

\* C11: CPU-lock illegality: while a task holds CPU Lock after a successful
\* acquire_cpu_lock, each of activate, interrupt, unpark and park returns
\* BadContext, does not block, and changes no task's status; after
\* release_cpu_lock the same task's park blocks normally.
CpuLockIllegality ==
    /\ [][LockedByAcquire]_vars
    /\ [][BadContextUnderLock]_vars
    /\ [][ParkBlocksAfterRelease]_vars

\* A task that holds CPU Lock has got BadContext from park, while another
\* task, which holds no CPU Lock, is blocked in park.
CpuLockIllegalityWitness ==
    \E t \in Tasks, u \in Tasks :
        /\ pc[t] = "locked" /\ cpu_lock /\ st[t] = "Running"
        /\ op[t].name = "park" /\ result[t] = "BadContext"
        /\ pc[u] = "blocked" /\ op[u].name = "park" /\ is_parked(K, u)

\* C12 (a): acquire_cpu_lock called while CPU Lock is active returns
\* BadContext and leaves CPU Lock active and the caller where it was.
NestedAcquireFails ==
    \A t \in Tasks :
        (cpu_lock /\ AcquireCpuLock(t)) =>
            /\ result'[t] = "BadContext"
            /\ cpu_lock'
            /\ pc'[t] = "locked"
            /\ UNCHANGED kvars

\* C12 (b): release_cpu_lock called while CPU Lock is inactive returns
\* BadContext and leaves it inactive.
IdleReleaseFails ==
    \A t \in Tasks :
        (~cpu_lock /\ ReleaseCpuLock(t)) =>
            /\ result'[t] = "BadContext"
            /\ ~cpu_lock'
            /\ pc'[t] = "user"
            /\ UNCHANGED kvars

\* C12 (c): the assertions of the port's enter_cpu_lock and leave_cpu_lock
\* never fail.
CpuLockAssertionsHold == fault = "none"

\* C12: no nested CPU Lock: acquire_cpu_lock called while CPU Lock is
\* already active returns BadContext and leaves CPU Lock active, and
\* release_cpu_lock called while CPU Lock is inactive returns BadContext;
\* consequently the port's enter_cpu_lock is never entered with the flag
\* already set and leave_cpu_lock never with it clear.
NoNestedCpuLock ==
    /\ [][NestedAcquireFails]_vars
    /\ [][IdleReleaseFails]_vars
    /\ []CpuLockAssertionsHold

\* A task that holds CPU Lock has called acquire_cpu_lock again and got
\* BadContext; CPU Lock is still active.
NoNestedCpuLockWitness ==
    \E t \in Tasks :
        /\ pc[t] = "locked" /\ cpu_lock /\ running_task = t
        /\ op[t].name = "acquire_cpu_lock" /\ result[t] = "BadContext"
        /\ phase = "run"

\* C13 (a): each service a startup hook calls returns BadContext and
\* returns to the hook: the kernel state, every task's status included, and
\* every task's position are as before, and the boot phase is still on.
HookGetsBadContext ==
    \A o \in HookServices :
        HookCall(o) =>
            /\ hook' = [op |-> o, result |-> "BadContext"]
            /\ phase' = "boot"
            /\ UNCHANGED <<kvars, pc, op, result>>

\* C13 (b): during the boot phase no task has left its initial state, no
\* task runs, and the boot can go on to dispatch the first task.
BootContinues ==
    phase = "boot" =>
        /\ st = [t \in Tasks |-> to_state(t \in cfg.active)]
        /\ running_task = NoTask
        /\ \A t \in Tasks : pc[t] = "none"
        /\ hook.result \in {"None", "BadContext"}
        /\ ENABLED Boot

\* C13: boot-context restrictions: called from a startup hook,
\* boost_priority, exit_task, park and Task::current each return
\* BadContext; none of them blocks or diverges, and boot continues with
\* every task's state unchanged.
BootContextRestrictions ==
    /\ [][HookGetsBadContext]_vars
    /\ []BootContinues

\* A startup hook has called exit_task and got BadContext back; the boot
\* phase is on and the active task still awaits its first dispatch.
BootContextRestrictionsWitness ==
    /\ phase = "boot"
    /\ hook = [op |-> "exit_task", result |-> "BadContext"]
    /\ \E t \in Tasks : st[t] = "PendingActivation"

\* C14 (a): activate on a task that is not Dormant returns QueueOverflow
\* and leaves every task's status unchanged.
ActivateNonDormant ==
    \A t \in Tasks, u \in Tasks :
        (ActivateTask(t, u) /\ ~cpu_lock /\ st[u] # "Dormant") =>
            /\ result'[t] = "QueueOverflow"
            /\ st' = st
            /\ UNCHANGED <<ready_queue, ready_bitmap, running_task>>

\* C14 (b): activate on a Dormant task succeeds and makes it
\* PendingActivation.
ActivateDormant ==
    \A t \in Tasks, u \in Tasks :
        (ActivateTask(t, u) /\ ~cpu_lock /\ st[u] = "Dormant") =>
            /\ result'[t] = "Ok"
            /\ st' = [st EXCEPT ![u] = "PendingActivation"]

\* C14 (c): a PendingActivation task leaves that state only in the
\* dispatcher, which makes it Ready before it chooses the task to run.
PendingBecomesReady ==
    \A u \in Tasks :
        (st[u] = "PendingActivation" /\ st'[u] # "PendingActivation") =>
            /\ handler = "dispatch"
            /\ activate_pending(K, 1).st[u] = "Ready"
            /\ st'[u] \in {"Ready", "Running"}

\* C14 (d): before the first dispatch the tasks configured active are
\* PendingActivation and the others Dormant.
ConfiguredActivation ==
    phase = "boot" =>
        \A t \in Tasks :
            st[t] = IF t \in cfg.active THEN "PendingActivation" ELSE "Dormant"

\* C14: single outstanding activation: activate on a task that is not
\* Dormant (PendingActivation, Ready, Running including the caller, or
\* Waiting) returns QueueOverflow with every task's status unchanged;
\* activate on a Dormant task succeeds and the task passes through
\* PendingActivation to Ready; tasks configured active start in
\* PendingActivation, the others Dormant.
SingleActivation ==
    /\ [][ActivateNonDormant]_vars
    /\ [][ActivateDormant]_vars
    /\ [][PendingBecomesReady]_vars
    /\ []ConfiguredActivation

\* A task has called activate on a Waiting task and got QueueOverflow,
\* while a third task, activated before, is Ready.
SingleActivationWitness ==
    \E t \in Tasks, u \in Tasks, v \in Tasks :
        /\ pc[t] = "call" /\ running_task = t
        /\ op[t] = [name |-> "activate", obj |-> u, n |-> 0]
        /\ result[t] = "QueueOverflow"
        /\ st[u] = "Waiting"
        /\ st[v] = "Ready" /\ v \notin cfg.active

\* An interrupt step on a Dormant or Running task fails with
\* BadObjectState and changes nothing of the tasks and the queues.
InterruptRejected ==
    \A t \in Tasks, u \in Tasks :
        (Interrupt(t, u) /\ ~cpu_lock /\ st[u] \in {"Dormant", "Running"}) =>
            /\ result'[t] = "BadObjectState"
            /\ st[u] = "Running" => u = t
            /\ st' = st
            /\ UNCHANGED <<waits, wait_queue, current_wait, wait_result>>
            /\ UNCHANGED <<ready_queue, ready_bitmap, running_task, park_token>>

\* C15: interrupt on a task that is Dormant, or Running (the caller
\* itself), returns BadObjectState and changes no task's status and no wait
\* queue.
InterruptBadObjectState == [][InterruptRejected]_vars

\* A task has called interrupt on a Dormant task and got BadObjectState,
\* while another task waits in the queue of the semaphore.
InterruptBadObjectStateWitness ==
    \E t \in Tasks, u \in Tasks :
        /\ pc[t] = "call" /\ running_task = t
        /\ op[t] = [name |-> "interrupt", obj |-> u, n |-> 0]
        /\ result[t] = "BadObjectState"
        /\ st[u] = "Dormant"
        /\ waits["s1"] # <<>>

\* The time left until the timeout of o expires.
Remaining(g, o) == wrapping_sub(g.at[o], g.tick)

\* The system time at which the timeout of o expires.
ArrivalTime(g, o) == wrapping_add(g.at[o], g.time_offset)

\* C16 (a): a set_time step fires no timeout: the same timeouts are linked
\* in the same order, and no sleeper has been woken up.
SetTimeFiresNone ==
    (time_offset' # time_offset) =>
        /\ heap' = heap
        /\ handler' = handler
        /\ \A o \in Owners : is_linked(G, o) => is_linked(G', o)

\* C16 (b): a set_time step leaves the remaining duration of every pending
\* timeout unchanged: each expires when the new system time has advanced
\* from the time set by the duration that remained.
SetTimeKeepsRemaining ==
    (time_offset' # time_offset) =>
        \A o \in Owners :
            is_linked(G, o) =>
                /\ Remaining(G', o) = Remaining(G, o)
                /\ ArrivalTime(G', o) =
                       wrapping_add(system_time(G'), Remaining(G, o))

\* C16 (c): a sleeper is woken up by the tick handler only, when its
\* timeout is the earliest and the system time has reached its arrival
\* time; a sleep for d expires d after the system time of the call.
WakesAtArrival ==
    \A t \in Sleepers :
        /\ (is_linked(G, t) /\ ~is_linked(G', t)) =>
               /\ handler = "tick"
               /\ Head(heap) = t
               /\ wrapping_sub(system_time(G), ArrivalTime(G, t)) <= TIME_USER_HEADROOM
               /\ \A o \in Owners :
                      is_linked(G, o) => heap_key(G, o) >= heap_key(G, t)
        /\ (~is_linked(G, t) /\ is_linked(G', t)) =>
               \E d \in SleepDurations :
                   ArrivalTime(G', t) = wrapping_add(system_time(G), d)

\* C16 (d): the timeouts are linked in the order of their expiration, the
\* overdue ones first.
WakeUpOrder ==
    \A i \in 1..Len(heap), j \in 1..Len(heap) :
        i < j => heap_key(G, heap[i]) <= heap_key(G, heap[j])

\* C16: set_time maintains the relative arrival times: a call fires no
\* pending timeout and leaves the remaining duration of each unchanged, so
\* the order of the wake-ups is unchanged and each sleeper wakes up when the
\* new system time equals the time set plus its remaining duration
\* (sleepers of 100 ms and 300 ms started at time 0, then set_time(300 ms):
\* arrivals at the system times 400 ms and 600 ms, the 100 ms one first).
SetTimeKeepsArrivals ==
    /\ [][SetTimeFiresNone]_vars
    /\ [][SetTimeKeepsRemaining]_vars
    /\ [][WakesAtArrival]_vars
    /\ []WakeUpOrder

\* task2 and task3 went to sleep at time 0 for 3 and 1 ticks and set_time
\* has set the system time to 3: the sleepers are due at the system times 4
\* and 6, task3 first.
SetTimeKeepsArrivalsWitness ==
    /\ tick = 0 /\ system_time(G) = 3
    /\ heap = <<"t3", "t2">>
    /\ Remaining(G, "t3") = 1 /\ Remaining(G, "t2") = 3
    /\ ArrivalTime(G, "t3") = 4 /\ ArrivalTime(G, "t2") = 6
    /\ InService

\* C17 (a): an expiration of the Active timer with a finite period links
\* the timeout again, at the expiration time it had plus the period.
RelinkedAtPreviousPlusPeriod ==
    (TickExpire /\ Head(heap) = Timer0 /\ timer_period # BAD_DURATION32) =>
        /\ timer_active /\ timer_active'
        /\ is_linked(G', Timer0)
        /\ at'[Timer0] = wrapping_add(at[Timer0], timer_period)
        /\ thist'.burst > 0

\* C17 (b): after k callbacks of a schedule the timeout is linked at the
\* first arrival time of the schedule plus k periods.
KthArrival ==
    is_linked(G, Timer0) =>
        at[Timer0] = IF thist.calls = 0 THEN thist.first
                     ELSE wrapping_add(thist.first, thist.calls * timer_period)

\* C17 (c): once the callbacks have caught up, the next arrival time lies
\* within one period: the callbacks made are those of the arrival times up
\* to now.
CaughtUp ==
    (is_linked(G, Timer0) /\ thist.calls > 0 /\ ~is_due(G, Timer0)) =>
        /\ Remaining(G, Timer0) >= 1
        /\ Remaining(G, Timer0) <= timer_period

\* C17 (d): the tick handler does not return while a callback is overdue.
OverdueRunBackToBack ==
    (handler = "tick" /\ handler' = "none") => ~timeout_due(G')

\* C17 (e): first arrival at 70 ms, period 40 ms: once caught up at 200 ms
\* the callback has been called four times (at 10 ms a tick).
FourCallsBy200 ==
    (/\ tick = 20 /\ thist.first = 7 /\ timer_period = 4
     /\ thist.calls > 0 /\ thist.calls <= 4
     /\ is_linked(G, Timer0) /\ ~is_due(G, Timer0)) =>
        thist.calls = 4

\* C17: absolute-arrival periodic scheduling: each expiration of an Active
\* timer with finite period p links the timeout again at the previous
\* expiration time + p (never now + p), so the k-th arrival time is the
\* first one + (k-1)*p however late the callbacks ran; overdue callbacks run
\* back-to-back, and once caught up the callbacks made are as many as the
\* arrival times passed (delay 70, period 40: 4 calls by 200).
AbsoluteArrival ==
    /\ [][RelinkedAtPreviousPlusPeriod]_vars
    /\ []KthArrival
    /\ []CaughtUp
    /\ [][OverdueRunBackToBack]_vars
    /\ []FourCallsBy200

\* The timer of delay 7 and period 4 was held off until tick 20: the tick
\* handler has made its four overdue callbacks in one run and the next
\* arrival time is 23.
AbsoluteArrivalWitness ==
    /\ handler = "tick" /\ tick = 20
    /\ thist = [first |-> 7, calls |-> 4, burst |-> 4, last |-> "expire", dropped |-> 0]
    /\ timer_period = 4 /\ timer_active
    /\ heap = <<Timer0>> /\ at[Timer0] = 23

\* The durations the timer is given.
TimerDurations ==
    {time32_from_duration(d) : d \in (Delays \cup Periods) \ {None}}

\* C18 (a): the timer's timeout is linked if and only if the timer is
\* Active and its delay is finite (the delay of an unlinked timeout is its
\* raw field).
LinkedIffActiveAndFinite ==
    is_linked(G, Timer0) <=>
        (timer_active /\ (is_linked(G, Timer0) \/ at_raw(G, Timer0) # BAD_DURATION32))

\* C18 (b): the timeout of a Dormant timer is not linked, and a timeout is
\* linked once at most.
DormantNeverLinked ==
    /\ ~timer_active => ~is_linked(G, Timer0)
    /\ Cardinality({i \in 1..Len(heap) : heap[i] = Timer0}) <= 1

\* C18 (c): the raw field of the unlinked timeout holds the infinity
\* sentinel or a captured delay: a duration no longer than those given.
UnlinkedHoldsDelay ==
    ~is_linked(G, Timer0) =>
        \/ at_raw(G, Timer0) = BAD_DURATION32
        \/ \E d \in TimerDurations : at_raw(G, Timer0) <= d

\* C18: the timer link invariant: wherever CPU Lock is released, after any
\* sequence of init_timer, start, stop, set_delay, set_period and
\* expirations, the timer's timeout is linked if and only if the timer is
\* Active and its delay is finite; a Dormant timer's timeout is never
\* linked, and an unlinked timeout's raw field holds the captured delay or
\* the infinity sentinel.
TimerLinkInvariant ==
    /\ LinkedIffActiveAndFinite
    /\ DormantNeverLinked
    /\ UnlinkedHoldsDelay

\* The timer, its period infinite, has expired: it is Active, its timeout
\* is not linked and holds the sentinel.
TimerLinkInvariantWitness ==
    /\ thist.last = "expire" /\ thist.calls > 0
    /\ timer_active /\ ~is_linked(G, Timer0)
    /\ at_raw(G, Timer0) = BAD_DURATION32
    /\ handler = "none"

\* C19 (a): stop of an Active timer whose expiration is not overdue
\* captures the remaining delay and leaves the period alone.
StopCaptures ==
    (TimerStop /\ timer_active /\ is_linked(G, Timer0) /\ ~is_due(G, Timer0)) =>
        /\ ~timer_active' /\ ~is_linked(G', Timer0)
        /\ at_raw(G', Timer0) = Remaining(G, Timer0)
        /\ timer_period' = timer_period
        /\ thist'.last = "stop"

\* C19 (b): while the timer stays stopped, the captured delay and the
\* period stay as they are.
StoppedKeepsDelay ==
    (thist.last = "stop" /\ thist'.last = "stop") =>
        /\ at'[Timer0] = at[Timer0]
        /\ timer_period' = timer_period
        /\ ~timer_active'

\* C19 (c): the start that follows links the timeout to expire after the
\* captured delay, the timer Active and its period as before.
StartRestores ==
    (TimerStart /\ thist.last = "stop" /\ at_raw(G, Timer0) # BAD_DURATION32) =>
        /\ timer_active' /\ is_linked(G', Timer0)
        /\ Remaining(G', Timer0) = at_raw(G, Timer0)
        /\ timer_period' = timer_period
        /\ thist'.last = "restart"

\* C19 (d): stop and, n ticks later, start: the expiration time is shifted
\* by n, whatever the state the timer is stopped in.
RoundTrip ==
    (timer_active /\ is_linked(G, Timer0) /\ ~is_due(G, Timer0)) =>
        \A n \in Ticks :
            LET g1 == stop_timer(G)
                g2 == start_timer([g1 EXCEPT !.tick = wrapping_add(@, n)])
            IN /\ g2.active /\ is_linked(g2, Timer0)
               /\ Remaining(g2, Timer0) = Remaining(G, Timer0)
               /\ g2.at[Timer0] = wrapping_add(at[Timer0], n)
               /\ g2.period = timer_period

\* C19: the stop/start round trip: for an Active timer whose next
\* expiration is not overdue, stop followed by start with no set_delay in
\* between yields a timer whose remaining delay at the start is its
\* remaining delay at the stop (the expiration is shifted by the time spent
\* stopped), with the period and the Active state as before the stop.
StopStartRoundTrip ==
    /\ [][StopCaptures]_vars
    /\ [][StoppedKeepsDelay]_vars
    /\ [][StartRestores]_vars
    /\ []RoundTrip

\* The timer of delay 7 and period 4 was stopped with 5 ticks left and has
\* been started again, some ticks later: 5 ticks are left.
StopStartRoundTripWitness ==
    /\ thist.last = "restart"
    /\ timer_active /\ is_linked(G, Timer0)
    /\ Remaining(G, Timer0) = 5
    /\ timer_period = 4
    /\ tick > 7

\* C20 (a): set_delay(None) on an Active timer unlinks the timeout; the
\* timer stays Active.
InfiniteDelayUnlinks ==
    (TimerSetDelay(None) /\ timer_active) =>
        /\ timer_active'
        /\ ~is_linked(G', Timer0)
        /\ at_raw(G', Timer0) = BAD_DURATION32

\* C20 (b): the callback is called for a linked timeout only, so not while
\* the delay is infinite.
CallbackOnlyWhenLinked ==
    (/\ thist'.last = "expire"
     /\ thist'.calls # thist.calls \/ thist.last # "expire") =>
        /\ TickExpire
        /\ is_linked(G, Timer0)
        /\ is_due(G, Timer0)

\* C20 (c): the timeout of an Active timer is linked again by a set_delay
\* with a finite delay only.
OnlySetDelayRelinks ==
    (timer_active /\ ~is_linked(G, Timer0) /\ is_linked(G', Timer0)) =>
        \E d \in Delays \ {None} : TimerSetDelay(d)

\* C20 (d): set_delay(Some(d)) on an Active timer schedules the next
\* expiration at now + d, whatever was scheduled or overdue.
FiniteDelayFromNow ==
    \A d \in Delays \ {None} :
        (TimerSetDelay(d) /\ timer_active) =>
            /\ timer_active'
            /\ heap' = <<Timer0>>
            /\ at'[Timer0] = wrapping_add(tick, d[1])
            /\ thist'.calls = 0

\* C20: infinite delay: set_delay(None) on an Active timer unlinks its
\* timeout, the timer stays Active, and its callback is not called again
\* until a later set_delay(Some(d)) with finite d, which schedules the next
\* expiration at now + d, discarding what was scheduled or overdue.
InfiniteDelay ==
    /\ [][InfiniteDelayUnlinks]_vars
    /\ [][CallbackOnlyWhenLinked]_vars
    /\ [][OnlySetDelayRelinks]_vars
    /\ [][FiniteDelayFromNow]_vars

\* The periodic timer, Active, has been given an infinite delay after its
\* first ticks have passed: its timeout is not linked.
InfiniteDelayWitness ==
    /\ thist.last = "set_delay"
    /\ timer_active /\ ~is_linked(G, Timer0)
    /\ at_raw(G, Timer0) = BAD_DURATION32
    /\ timer_period = 4
    /\ tick > 7

\* ------------------------------------------------------------------------
\* One-shot timers
\* ------------------------------------------------------------------------

\* The timeout of the timer has expired with an infinite period and nothing
\* has set its delay since.
one_shot_expired(g) ==
    /\ g.active
    /\ g.period = BAD_DURATION32
    /\ at_raw(g, Timer0) = BAD_DURATION32
    /\ ~is_linked(g, Timer0)

\* C21 (a): when the timeout of an Active timer with an infinite period
\* expires, the callback is called once for that expiration: the timer stays
\* Active, its timeout unlinked and its delay infinite, so that the tick
\* handler has no second call to make.
OneShotExpires ==
    (TickExpire /\ Head(heap) = Timer0 /\ timer_period = BAD_DURATION32) =>
        /\ timer_active
        /\ thist' = Called
        /\ one_shot_expired(G')
        /\ ~timeout_due(G')

\* C21 (b): from then on the callback is not called and the timeout is not
\* linked, until set_delay gives a finite delay.
OneShotSilent ==
    (~is_linked(G, Timer0) /\ at_raw(G, Timer0) = BAD_DURATION32) =>
        \/ \E d \in Delays \ {None} : TimerSetDelay(d)
        \/ /\ ~is_linked(G', Timer0)
           /\ at_raw(G', Timer0) = BAD_DURATION32
           /\ thist'.calls = thist.calls \/ thist'.last # "expire"

\* C21: infinite period (one-shot): when an Active timer whose period is
\* infinite expires, its callback is called exactly once for that
\* expiration, the timer stays Active with its timeout unlinked and its
\* delay infinite, and it does not fire again until set_delay supplies a
\* finite delay.
OneShot ==
    /\ [][OneShotExpires]_vars
    /\ [][OneShotSilent]_vars

\* The one-shot timer has fired once, and ticks have passed since without a
\* second call.
OneShotWitness ==
    /\ thist.last = "expire" /\ thist.calls = 1
    /\ one_shot_expired(G)
    /\ handler = "none"
    /\ tick > 10

\* ------------------------------------------------------------------------
\* Dynamic period
\* ------------------------------------------------------------------------

\* C22 (a): set_period stores the period and nothing else: the Active flag,
\* the link and the expiration time scheduled are left alone, also when the
\* caller is the timer's own callback, the next tick being scheduled
\* already.
SetPeriodStoresOnly ==
    \A p \in Periods :
        (TimerSetPeriod(p) \/ CallbackSetPeriod(p)) =>
            /\ timer_period' = time32_from_duration(p)
            /\ UNCHANGED <<timer_active, heap, at, tick, time_offset>>

\* C22 (b): the period set is first used by the next expiration, which is
\* the one that was scheduled when it was set: the period is added to that
\* arrival time, and an infinite period ends the schedule.
NewPeriodAtNextExpiration ==
    (TickExpire /\ Head(heap) = Timer0 /\ thist.last = "set_period") =>
        /\ at[Timer0] = thist.first
        /\ IF timer_period = BAD_DURATION32
           THEN ~is_linked(G', Timer0)
           ELSE /\ is_linked(G', Timer0)
                /\ at'[Timer0] = wrapping_add(thist.first, timer_period)

\* C22: set_period is write-through: it changes only the stored period and
\* leaves the Active flag, the link and the expiration time scheduled
\* unchanged; the new period is first used at the next expiration, added to
\* the arrival time. A set_period made by the timer's own callback does not
\* move the expiration that was linked again before the callback was called.
SetPeriodWriteThrough ==
    /\ [][SetPeriodStoresOnly]_vars
    /\ [][NewPeriodAtNextExpiration]_vars

\* The callback of the periodic timer has set an infinite period: the next
\* tick stays scheduled one old period after the arrival served.
SetPeriodWriteThroughWitness ==
    /\ handler = "tick"
    /\ thist.last = "set_period"
    /\ timer_active /\ is_linked(G, Timer0)
    /\ timer_period = BAD_DURATION32
    /\ Remaining(G, Timer0) = 4

\* ------------------------------------------------------------------------
\* The errors of Timer::start and Timer::stop
\* ------------------------------------------------------------------------

\* C23 as stated: the only error Timer::start and Timer::stop return is
\* BadId, and with the ID of a timer they return Ok in any context.
StartStopOnlyBadId ==
    \A t \in Tasks :
        op[t].name \in {"start", "stop"} =>
            /\ result[t] \in {"Ok", "BadId"}
            /\ timer_cb(op[t].obj) # None => result[t] = "Ok"

\* C23, amended: Timer::start and Timer::stop return BadContext when CPU
\* Lock is active, whatever the ID; with CPU Lock inactive they return BadId
\* for an ID that names no timer and Ok for the ID of a timer; when they
\* return an error the state of the timer is unchanged.
StartStopErrors ==
    \A t \in Tasks, o \in {"start", "stop"}, id \in TimerIds :
        TimerCall(t, o, id) =>
            /\ result'[t] = IF cpu_lock THEN "BadContext"
                            ELSE IF id = 1 THEN "Ok" ELSE "BadId"
            /\ result'[t] # "Ok" => UNCHANGED tvars
            /\ cpu_lock' = cpu_lock

StartStopErrorSet == [][StartStopErrors]_vars

\* A task holding CPU Lock has called Timer::stop on the Active, linked
\* timer and got BadContext: the timer is still Active and linked.
StartStopErrorSetWitness ==
    \E t \in Tasks :
        /\ op[t] = [name |-> "stop", obj |-> 1, n |-> 0]
        /\ result[t] = "BadContext"
        /\ pc[t] = "locked"
        /\ timer_active /\ is_linked(G, Timer0)

\* ------------------------------------------------------------------------
\* Event groups: set with waiters that clear
\* ------------------------------------------------------------------------

\* What a set leaves, the bits being b after the mask was ORed in and refs
\* being the waiters in queue order: each waiter is evaluated against the
\* bits left by those before it.
RECURSIVE VisitWaiters(_, _)
VisitWaiters(b, refs) ==
    IF refs = <<>> THEN [bits |-> b, blocked |-> <<>>, woken |-> <<>>]
    ELSE LET w == Head(refs)
             pl == payload[w]
             hit == IF pl.all THEN pl.bits \subseteq b ELSE pl.bits \cap b # {}
             r == VisitWaiters(IF hit /\ pl.clear THEN b \ pl.bits ELSE b, Tail(refs))
         IN IF hit
            THEN [r EXCEPT !.woken = <<[task |-> w, bits |-> b]>> \o @]
            ELSE [r EXCEPT !.blocked = <<w>> \o @]

\* C24 (a): set ORs the mask into the bits and visits the waiters in queue
\* order: a waiter whose condition holds against the bits at that moment is
\* unlinked and woken up with those bits reported, its bits being cleared,
\* if it asked for it, before the next waiter is evaluated; the others stay
\* blocked, in order.
SetVisitsInOrder ==
    \A t \in Tasks, g \in EventGroups, mask \in Masks :
        EventSet(t, g, mask) =>
            LET o == VisitWaiters(bits \cup mask, waits[g]) IN
            /\ bits' = o.bits
            /\ waits'[g] = o.blocked
            /\ \A i \in 1..Len(o.blocked) : st'[o.blocked[i]] = "Waiting"
            /\ \A i \in 1..Len(o.woken) :
                  /\ st'[o.woken[i].task] = "Ready"
                  /\ orig_bits'[o.woken[i].task] = o.woken[i].bits

\* C24 (b): with no bit set and one waiter for any of two bits that clears,
\* a set of one of the two wakes it up reporting that bit, and no bit is
\* left.
SetWakesAndClears ==
    \A t \in Tasks, g \in EventGroups, w \in Tasks :
        (/\ EventSet(t, g, {2})
         /\ bits = {}
         /\ waits[g] = <<w>>
         /\ payload[w] = [bits |-> {1, 2}, all |-> FALSE, clear |-> TRUE]) =>
            /\ st'[w] = "Ready"
            /\ orig_bits'[w] = {2}
            /\ bits' = {}
            /\ waits'[g] = <<>>

\* C24: event-group set with auto-clear: set(mask) ORs the mask into the
\* bits, then visits the waiters in queue order; each waiter whose any/all
\* condition holds against the bits at that moment is removed and woken up,
\* and if it asked for clearing its matched bits are cleared before the next
\* waiter is evaluated, so that a later waiter that needed bits an earlier
\* one consumed stays blocked.
SetAutoClear ==
    /\ [][SetVisitsInOrder]_vars
    /\ [][SetWakesAndClears]_vars

\* A set of bit 2 has woken the first waiter, which cleared the bit, and the
\* second waiter, which waits for that bit, is still blocked.
SetAutoClearWitness ==
    \E t \in Tasks, a \in Tasks, b \in Tasks :
        /\ pc[t] = "call" /\ op[t].name = "set"
        /\ st[a] = "Ready" /\ pc[a] = "blocked" /\ orig_bits[a] = {2}
        /\ payload[a] = [bits |-> {1, 2}, all |-> FALSE, clear |-> TRUE]
        /\ st[b] = "Waiting" /\ waits["eg"] = <<b>>
        /\ payload[b] = [bits |-> {2}, all |-> FALSE, clear |-> FALSE]
        /\ arrivals["eg"] = <<b>>
        /\ bits = {}

\* ------------------------------------------------------------------------
\* Interrupt lines
\* ------------------------------------------------------------------------

\* Task t makes a call of a service of the interrupt lines in this step: the
\* call is the one recorded.
LineStep(t) ==
    /\ TaskCode(t)
    /\ op'[t].name \in LineServices
    /\ LineCall(t, op'[t].name, op'[t].obj,
                IF op'[t].name = "set_priority" THEN op'[t].n
                ELSE CHOOSE priority \in LinePriorities : TRUE)

\* C25: interrupt line number validation: each of set-priority, enable,
\* disable, pend, clear and is-pending returns BadParam when the line number
\* is outside 0..NUM_INTERRUPT_LINES, and then no line's priority, enable or
\* pended bit changes and no handler is dispatched.
LineNumberRejected ==
    \A t \in Tasks :
        (LineStep(t) /\ op'[t].obj \notin 0..(NUM_INTERRUPT_LINES - 1)) =>
            /\ result'[t] = "BadParam"
            /\ lines' = lines
            /\ pended' = pended
            /\ handler' = handler
            /\ UNCHANGED kvars

LineNumberValidation == [][LineNumberRejected]_vars

\* A line is enabled and pended with CPU Lock held, so that a check of the
\* lines would dispatch its handler; the task has pended the number that
\* follows the last line and got BadParam.
LineNumberValidationWitness ==
    \E t \in Tasks :
        /\ op[t] = [name |-> "pend", obj |-> NUM_INTERRUPT_LINES, n |-> 0]
        /\ result[t] = "BadParam"
        /\ pending_lines(K) = {1}
        /\ line_priority(K, 1) = 1
        /\ handler = "none"

\* C26: interrupt priority validation: set-priority on a valid line with a
\* priority outside the managed range returns BadParam and leaves the
\* priority of the line unchanged.
PriorityRejected ==
    \A t \in Tasks :
        (/\ LineStep(t)
         /\ op'[t].name = "set_priority"
         /\ op'[t].obj \in 0..(NUM_INTERRUPT_LINES - 1)
         /\ ~is_managed(op'[t].n)) =>
            /\ result'[t] = "BadParam"
            /\ line_priority(K', op'[t].obj) = line_priority(K, op'[t].obj)

PriorityValidation == [][PriorityRejected]_vars

\* ------------------------------------------------------------------------
\* Tick wrap-around
\* ------------------------------------------------------------------------

\* The ticks until the tick counter reaches the expiration time of o,
\* counted around the wrap; 0 when it is there.
TicksLeft(o) == (at[o] + TimeModulus - tick) % TimeModulus

\* C27 (a): a timeout scheduled at now + d expires at (now + d) modulo the
\* number of tick counts, also when now + d overflows.
ScheduledModulo ==
    \A t \in Sleepers :
        (~is_linked(G, t) /\ is_linked(G', t)) =>
            /\ tick' = tick
            /\ \E d \in WrapDurations :
                  /\ at'[t] = (tick + d) % TimeModulus
                  /\ (at'[t] + TimeModulus - tick') % TimeModulus = d

\* C27 (b): a tick brings every pending timeout one tick nearer, across the
\* wrap too, and changes no expiration time.
CountsDown ==
    (tick' # tick) =>
        /\ tick' = (tick + 1) % TimeModulus
        /\ at' = at /\ heap' = heap
        /\ \A t \in Sleepers :
              (is_linked(G, t) /\ TicksLeft(t) \in 1..MAX_TIMEOUT) =>
                  (at'[t] + TimeModulus - tick') % TimeModulus = TicksLeft(t) - 1

\* C27 (c): a timeout does not fire early: it expires only when the tick
\* counter has reached its expiration time (or passed it, by the latency of
\* the tick handler).
NotEarly ==
    \A t \in Sleepers :
        (is_linked(G, t) /\ ~is_linked(G', t)) =>
            /\ handler = "tick"
            /\ TicksLeft(t) \notin 1..MAX_TIMEOUT
            /\ (tick + TimeModulus - at[t]) % TimeModulus <= TIME_USER_HEADROOM

\* C27 (d): a timeout is not lost: while linked it is either pending, at
\* most MAX_TIMEOUT ticks ahead, or reached; once reached, the tick handler
\* has a timeout to expire and does not return.
NotLost ==
    \A t \in Sleepers :
        is_linked(G, t) =>
            /\ \/ TicksLeft(t) \in 0..MAX_TIMEOUT
               \/ (tick + TimeModulus - at[t]) % TimeModulus <= TIME_USER_HEADROOM
            /\ TicksLeft(t) \notin 1..MAX_TIMEOUT => timeout_due(G)

\* C27: tick wrap-around: with tick arithmetic modulo 2^w, a timeout
\* scheduled at now + d fires when the tick counter reaches (now + d) mod 2^w
\* even if now + d overflows, for every now (the counter need not start at
\* zero) and every d up to the maximum timeout; it neither fires early at
\* the wrap nor is lost.
TickWrapAround ==
    /\ [][ScheduledModulo]_vars
    /\ [][CountsDown]_vars
    /\ [][NotEarly]_vars
    /\ []NotLost

\* The tick counter has wrapped to zero, which is the expiration time of a
\* timeout of the longest duration scheduled before the wrap (the other
\* sleeper, scheduled later, expires after it): the tick handler is about
\* to expire it.
TickWrapAroundWitness ==
    /\ handler = "tick"
    /\ tick = 0
    /\ heap = <<"t2", "t3">>
    /\ at["t2"] = 0
    /\ at["t3"] = MAX_TIMEOUT - 1

\* ------------------------------------------------------------------------
\* The ready queue and the running task
\* ------------------------------------------------------------------------

\* The number of links of task t in the ready queue, all levels counted.
ReadyLinks(t) ==
    Cardinality({<<p, i>> \in Levels \X (1..Cardinality(Tasks)) :
                    i <= Len(ready_queue[p]) /\ ready_queue[p][i] = t})

\* C28: ready-queue membership: for every task t and priority p, t is in the
\* ready list of level p iff t is Ready and its priority is p; a task is
\* linked at most once in the whole ready queue.
ReadyQueueMembership ==
    \A t \in Tasks :
        /\ \A p \in Levels :
              (\E i \in 1..Len(ready_queue[p]) : ready_queue[p][i] = t)
                  <=> (st[t] = "Ready" /\ cfg.priority[t] = p)
        /\ \A p \in Levels : Len(ready_queue[p]) <= Cardinality(Tasks)
        /\ ReadyLinks(t) <= 1

\* Two tasks of one priority are Ready behind each other while a third one
\* runs; one of them was woken up from a wait.
ReadyQueueMembershipWitness ==
    \E p \in Levels, a \in Tasks, b \in Tasks :
        /\ ready_queue[p] = <<a, b>>
        /\ st[a] = "Ready" /\ st[b] = "Ready"
        /\ pc[b] = "blocked"
        /\ running_task \notin {a, b, NoTask}
        /\ st[running_task] = "Running"

AtMostOneRunning ==
    /\ Cardinality({t \in Tasks : st[t] = "Running"}) <= 1
    /\ \A t \in Tasks :
          st[t] = "Running" =>
              /\ running_task = t
              /\ is_task_context(K) => current_task(K).result = t

\* A task is Running inside a service, CPU Lock held, and a task of higher
\* priority that it has woken up is Ready: the dispatcher has yet to run.
AtMostOneRunningWitness ==
    \E a \in Tasks, b \in Tasks :
        /\ cpu_lock
        /\ st[a] = "Running" /\ pc[a] = "call"
        /\ st[b] = "Ready" /\ pc[b] = "blocked"
        /\ cfg.priority[b] < cfg.priority[a]

\* ------------------------------------------------------------------------
\* Sleeping tasks and a processor with no task to run
\* ------------------------------------------------------------------------

\* The task's side of Kernel::sleep: with CPU Lock active the caller blocks
\* on no wait queue, its wait having a timeout.
sleep_wait(k, t) == [wait_no_queue(k) EXCEPT !.timeout[t] = TRUE]

\* The callback of a sleeper's timeout, the task's side: the wait of the
\* sleeper is completed.
sleep_wake(k, t) ==
    LET k1 == [k EXCEPT !.timeout[t] = FALSE] IN
    IF k1.st[t] = "Waiting" /\ k1.current_wait[t] = t
    THEN complete_wait(k1, t)
    ELSE k1

\* The loop of the tick handler, made with CPU Lock active: every timeout
\* that is due is unlinked and its callback is called, earliest first.
RECURSIVE expire_due(_, _)
expire_due(k, g) ==
    IF ~timeout_due(g) \/ k.phase = "panicked" THEN [k |-> k, g |-> g]
    ELSE LET o == Head(g.heap) IN
         expire_due(IF o \in Tasks THEN sleep_wake(k, o) ELSE k, expire_timeout(g))

\* Kernel::sleep called by task t.
SleepFor(t, d) ==
    /\ InTask(t) /\ pc[t] = "user"
    /\ ~is_linked(G, t)
    /\ Commit(sleep_wait(enter_cpu_lock(K), t))
    /\ CommitG(sleep(G, t, d))
    /\ op' = [op EXCEPT ![t] = [name |-> "sleep", obj |-> "none", n |-> d]]
    /\ result' = [result EXCEPT ![t] = "Pending"]
    /\ pc' = [pc EXCEPT ![t] = "blocking"]
    /\ UNCHANGED <<cfg, hook, arrivals, thist>>

\* The tick interrupt is taken, a task running or none: the handler expires
\* the timeouts that are due, releases CPU Lock with the preemption check
\* and returns; the dispatch interrupt it pended is taken then.
TickWake ==
    /\ phase = "run" /\ handler = "none" /\ ~cpu_lock
    /\ timeout_due(G)
    /\ LET r == expire_due(enter_cpu_lock([K EXCEPT !.handler = "tick"]), G)
           k2 == unlock_cpu_and_check_preemption(r.k)
       IN /\ Commit(IF k2.phase = "panicked" THEN k2
                    ELSE check_preemption_by_interrupt([k2 EXCEPT !.handler = "none"]))
          /\ CommitG(r.g)
    /\ UNCHANGED <<cfg, pc, op, result, arrivals, hook, thist>>

\* The tasks of time_set_event: they activate each other, sleep and exit
\* while the time passes.
NextIdle ==
    \/ Boot
    \/ Dispatch
    \/ \E t \in Tasks, u \in Tasks : Activate(t, u)
    \/ \E t \in Sleepers, d \in SleepDurations : SleepFor(t, d)
    \/ \E t \in Tasks : Unlock(t)
    \/ \E t \in Tasks : WaitReturn(t)
    \/ \E t \in Tasks : ExitTask(t)
    \/ Advance
    \/ TickWake

SpecIdle == InitSleep /\ [][NextIdle]_vars

\* C31 (the dispatcher): a run of the dispatcher that finds no task to run
\* leaves the kernel operating.
IdleNoPanic ==
    [][(phase = "run" /\ handler = "dispatch" /\ running_task' = NoTask)
          => phase' = "run"]_vars

\* C31 (the sleepers): a task sleeping on a linked timeout is in a kernel
\* that operates, so that the tick handler can wake it up.
SleepersNotStranded ==
    \A t \in Sleepers :
        (st[t] = "Waiting" /\ is_linked(G, t)) => phase = "run"

\* C31: when the scheduler finds no Ready task the kernel sets the running
\* task to none and keeps operating without panicking, and a task sleeping
\* on a timeout at that moment can still be woken up by the timeout.
IdleInsteadOfPanic == IdleNoPanic /\ []SleepersNotStranded

\* ------------------------------------------------------------------------
\* Stopping an overdue timer
\* ------------------------------------------------------------------------

\* C32 (a): stop of an Active timer whose expiration time is now or in the
\* past captures a delay of zero: not the difference, which has wrapped.
StopOverdueCapturesZero ==
    (TimerStop /\ timer_active /\ is_linked(G, Timer0) /\ is_due(G, Timer0)) =>
        /\ ~timer_active' /\ ~is_linked(G', Timer0)
        /\ at_raw(G', Timer0) = 0
        /\ timer_period' = timer_period
        /\ thist'.last = "stop" /\ thist'.dropped >= 1

\* C32 (b): the start that follows schedules the expiration at the time of
\* the start.
RestartFiresAtOnce ==
    (TimerStart /\ thist.last = "stop" /\ thist.dropped >= 1) =>
        /\ timer_active' /\ heap' = <<Timer0>>
        /\ at'[Timer0] = tick
        /\ is_due(G', Timer0)
        /\ thist'.first = tick /\ thist'.calls = 0

\* C32 (c): the first callback after that start serves the arrival time of
\* the start, and the next arrival time is one period after it: the tick
\* handler has a second call to make only if a period has passed since the
\* start.
RestartCallsOnce ==
    (TickExpire /\ Head(heap) = Timer0 /\ thist.last = "restart" /\ thist.dropped >= 1) =>
        /\ at[Timer0] = thist.first
        /\ thist'.calls = 1
        /\ IF timer_period = BAD_DURATION32
           THEN ~is_linked(G', Timer0)
           ELSE /\ at'[Timer0] = wrapping_add(thist.first, timer_period)
                /\ timeout_due(G') <=> wrapping_sub(tick, thist.first) >= timer_period

\* C32 (d): every callback made after that start serves an arrival time
\* counted from the start, once that time has come; none is made for an
\* expiration that was outstanding when the timer was stopped.
DroppedNotMadeUp ==
    (TickExpire /\ Head(heap) = Timer0 /\ thist.dropped >= 1) =>
        /\ at[Timer0] = IF thist.calls = 0 THEN thist.first
                        ELSE wrapping_add(thist.first, thist.calls * timer_period)
        /\ is_due(G, Timer0)
        /\ thist.last \in {"restart", "expire"}

\* C32: stopping an overdue timer drops outstanding calls: stop of an Active
\* timer whose expiration is in the past captures the delay 0 (never the
\* wrapped difference); after a later start the callback fires once with
\* zero delay, and the expirations that were overdue at the stop are not
\* made up.
StopDropsOutstanding ==
    /\ [][StopOverdueCapturesZero]_vars
    /\ [][RestartFiresAtOnce]_vars
    /\ [][RestartCallsOnce]_vars
    /\ [][DroppedNotMadeUp]_vars

\* The periodic timer was stopped with two or more expirations outstanding
\* and started again: the tick handler has made one callback and has no
\* other to make, the next arrival time being one period after the start.
StopDropsOutstandingWitness ==
    /\ handler = "tick"
    /\ thist.last = "expire" /\ thist.calls = 1 /\ thist.dropped >= 2
    /\ timer_period = 4 /\ timer_active
    /\ heap = <<Timer0>> /\ at[Timer0] = wrapping_add(thist.first, 4)
    /\ ~timeout_due(G)

\* ------------------------------------------------------------------------
\* The delay of a Dormant timer
\* ------------------------------------------------------------------------

\* C33 (a): set_delay on a Dormant timer stores the delay in the raw field
\* of the timeout and nothing else.
SetDelayDormantStores ==
    \A d \in Delays :
        (TimerSetDelay(d) /\ ~timer_active) =>
            /\ ~timer_active'
            /\ ~is_linked(G', Timer0)
            /\ at_raw(G', Timer0) = time32_from_duration(d)
            /\ UNCHANGED <<heap, timer_period, tick, time_offset>>

\* C33 (b): while the timer is Dormant its callback is not called and its
\* timeout is not linked; the delay stored changes by set_delay only.
DormantSilent ==
    (~timer_active /\ ~timer_active') =>
        /\ ~is_linked(G, Timer0) /\ ~is_linked(G', Timer0)
        /\ thist'.calls = thist.calls \/ thist'.last # "expire"
        /\ at'[Timer0] # at[Timer0] => \E d \in Delays : TimerSetDelay(d)

\* C33 (c): the start of the Dormant timer schedules the first expiration
\* at the time of the start plus the delay stored; an infinite delay makes
\* the timer Active without linking its timeout.
StartSchedulesStoredDelay ==
    (TimerStart /\ ~timer_active) =>
        /\ timer_active'
        /\ IF at_raw(G, Timer0) = BAD_DURATION32
           THEN ~is_linked(G', Timer0) /\ at_raw(G', Timer0) = BAD_DURATION32
           ELSE /\ heap' = <<Timer0>>
                /\ at'[Timer0] = wrapping_add(tick, at_raw(G, Timer0))
                /\ thist'.first = at'[Timer0] /\ thist'.calls = 0

\* C33: set_delay on a Dormant timer only stores the delay: the timer stays
\* Dormant and its timeout unlinked, no callback fires while it is Dormant,
\* and the next start schedules the first expiration at the time of the
\* start + d; if d is None the next start makes the timer Active without
\* linking it.
SetDelayDormant ==
    /\ [][SetDelayDormantStores]_vars
    /\ [][DormantSilent]_vars
    /\ [][StartSchedulesStoredDelay]_vars

\* The Dormant timer has been given the delay 7, the time being past tick
\* 8: it is Dormant, its timeout unlinked and holding the delay, and its
\* callback has not been called.
SetDelayDormantWitness ==
    /\ thist.last = "set_delay" /\ thist.calls = 0
    /\ ~timer_active /\ heap = <<>>
    /\ at_raw(G, Timer0) = 7
    /\ tick > 8
    /\ handler = "none"

\* ------------------------------------------------------------------------
\* The timer's callback and CPU Lock
\* ------------------------------------------------------------------------

\* Timer::set_delay and Timer::set_period, the duration being valid: CPU
\* Lock is taken first, then the ID is looked up.
timer_set_delay(k, g, id, d) ==
    IF ~lock_cpu(k).ok THEN [g |-> g, result |-> "BadContext"]
    ELSE IF timer_cb(id) = None THEN [g |-> g, result |-> "BadId"]
    ELSE [g |-> set_timer_delay(g, time32_from_duration(d)), result |-> "Ok"]

timer_set_period(k, g, id, p) ==
    IF ~lock_cpu(k).ok THEN [g |-> g, result |-> "BadContext"]
    ELSE IF timer_cb(id) = None THEN [g |-> g, result |-> "BadId"]
    ELSE [g |-> set_timer_period(g, time32_from_duration(p)), result |-> "Ok"]

\* A re-acquisition that takes CPU Lock to be inactive.
reacquire_cpu_lock_unwrap(k) ==
    LET l == lock_cpu(k) IN IF l.ok THEN l.k ELSE Panic(k)

\* The end of timer_timeout_handler: CPU Lock is acquired again, or assumed
\* if the callback has left it active.
reacquire_cpu_lock(k) ==
    LET l == lock_cpu(k) IN IF l.ok THEN l.k ELSE k

\* The tick interrupt is taken, a timeout being due: the handler acquires
\* CPU Lock.
TickTake ==
    /\ InService
    /\ timeout_due(G)
    /\ Commit(enter_cpu_lock([K EXCEPT !.handler = "tick"]))
    /\ thist' = [thist EXCEPT !.burst = 0]
    /\ UNCHANGED <<cfg, pc, op, result, arrivals, hook>>
    /\ UNCHANGED <<tick, time_offset, heap, at, timer_active, timer_period>>

\* The timeout of the timer, which is due, is unlinked and
\* timer_timeout_handler schedules the next tick.
TimerRelink ==
    /\ phase = "run" /\ handler = "tick" /\ cpu_lock
    /\ timeout_due(G) /\ Head(heap) = Timer0
    /\ CommitG(expire_timeout(G))
    /\ thist' = Called
    /\ Commit([K EXCEPT !.handler = "timer"])
    /\ UNCHANGED <<cfg, pc, op, result, arrivals, hook>>

\* timer_timeout_handler releases CPU Lock and calls the callback.
CallbackEnter ==
    /\ phase = "run" /\ handler = "timer"
    /\ Commit([leave_cpu_lock(K) EXCEPT !.handler = "callback"])
    /\ UNCHANGED <<cfg, pc, op, result, arrivals, hook, tvars>>

\* The services of the timer called during the callback, and who calls
\* them: the callback, or the handler of an interrupt that preempts it.
CallbackServices == {"start", "stop", "set_delay", "set_period"}

CallbackCallers == {"callback", "handler"}

CallbackOp(by, o, x) ==
    /\ phase = "run" /\ handler = "callback"
    /\ by = "handler" => ~cpu_lock
    /\ o = "set_delay" => x \in Delays
    /\ o = "set_period" => x \in Periods
    /\ o \in {"start", "stop"} => x = None
    /\ LET r == CASE o = "start" -> timer_start(K, G, 1)
                  [] o = "stop" -> timer_stop(K, G, 1)
                  [] o = "set_delay" -> timer_set_delay(K, G, 1, x)
                  [] o = "set_period" -> timer_set_period(K, G, 1, x)
       IN /\ CommitG(r.g)
          /\ thist' = IF r.result # "Ok" THEN thist
                      ELSE CASE o = "start" -> IF timer_active THEN thist ELSE Started(r.g)
                             [] o = "stop" -> IF timer_active THEN Stopped(G, r.g) ELSE thist
                             [] o = "set_delay" -> Schedule(r.g, "set_delay")
                             [] o = "set_period" -> Schedule(r.g, "set_period")
    /\ UNCHANGED taskvars

\* The callback acquires CPU Lock, and releases it.
CallbackLock ==
    /\ phase = "run" /\ handler = "callback" /\ ~cpu_lock
    /\ Commit(acquire_cpu_lock(K).k)
    /\ UNCHANGED <<cfg, pc, op, result, arrivals, hook, tvars>>

CallbackUnlock ==
    /\ phase = "run" /\ handler = "callback" /\ cpu_lock
    /\ Commit(release_cpu_lock(K).k)
    /\ UNCHANGED <<cfg, pc, op, result, arrivals, hook, tvars>>

\* The callback returns, with CPU Lock or without it.
CallbackReturn ==
    /\ phase = "run" /\ handler = "callback"
    /\ Commit([reacquire_cpu_lock(K) EXCEPT !.handler = "tick"])
    /\ UNCHANGED <<cfg, pc, op, result, arrivals, hook, tvars>>

\* No timeout is due: the tick handler releases CPU Lock and returns.
TickLeave ==
    /\ phase = "run" /\ handler = "tick" /\ cpu_lock
    /\ ~timeout_due(G)
    /\ LET k == unlock_cpu_and_check_preemption(K) IN
       Commit(IF k.phase = "panicked" THEN k
              ELSE check_preemption_by_interrupt([k EXCEPT !.handler = "none"]))
    /\ UNCHANGED <<cfg, pc, op, result, arrivals, hook, tvars>>

\* An Active timer of delay 3, periodic or one-shot.
InitCallback ==
    /\ cfg = TimeTable
    /\ InitKernel
    /\ \E p \in Periods :
          InitTime([init_active |-> TRUE, delay |-> Some(3), period |-> p])

NextCallback ==
    \/ Boot
    \/ Dispatch
    \/ Advance
    \/ TickTake
    \/ TimerRelink
    \/ CallbackEnter
    \/ \E by \in CallbackCallers, o \in CallbackServices, x \in Delays \cup Periods :
          CallbackOp(by, o, x)
    \/ CallbackLock
    \/ CallbackUnlock
    \/ CallbackReturn
    \/ TickLeave
    \/ TimerStart

SpecCallback == InitCallback /\ [][NextCallback]_vars

\* C34 (a): when timer_timeout_handler is about to release CPU Lock, CPU
\* Lock is active and the timeout of the timer has been linked again, or
\* holds the sentinel if the period is infinite.
RelinkedUnderLock ==
    handler = "timer" =>
        /\ cpu_lock /\ timer_active
        /\ IF timer_period = BAD_DURATION32
           THEN ~is_linked(G, Timer0) /\ at_raw(G, Timer0) = BAD_DURATION32
           ELSE /\ is_linked(G, Timer0)
                /\ at[Timer0] = (thist.first + thist.calls * timer_period) % TimeModulus

\* C34 (b): the callback is entered with CPU Lock inactive, and no service
\* of the timer called during the callback changes CPU Lock: it is active
\* in the callback only while the callback itself holds it.
CallbackRunsUnlocked ==
    [][/\ (handler = "timer" /\ handler' = "callback") => ~cpu_lock'
       /\ (handler = "callback" /\ handler' = "callback" /\ cpu_lock' # cpu_lock)
             => UNCHANGED <<heap, at, timer_active, timer_period>>]_vars

\* C34 (c): the expiration handler returns to the timeout manager with CPU
\* Lock active, whether the callback has returned with CPU Lock or
\* without it, and the timeout manager holds CPU Lock throughout.
ReturnsLocked ==
    /\ [][(handler = "callback" /\ handler' = "tick")
             => (phase' = "run" /\ cpu_lock')]_vars
    /\ [](handler = "tick" => (phase = "run" /\ cpu_lock))

\* C34 (d): during the callback a stop captures the delay up to the next
\* arrival, which is already scheduled; a set_delay links the timeout at
\* a delay from now, or stores the sentinel; a set_period leaves the
\* schedule alone; and a service called with CPU Lock active changes
\* nothing.
CallbackOpsOnRescheduled ==
    [][(handler = "callback" /\ handler' = "callback") =>
          /\ (timer_active /\ ~timer_active') =>
                /\ ~cpu_lock /\ ~is_linked(G', Timer0)
                /\ at_raw(G', Timer0) =
                      IF is_linked(G, Timer0)
                      THEN saturating_duration_until_timeout(G, Timer0)
                      ELSE at_raw(G, Timer0)
          /\ (timer_active /\ thist'.last = "set_delay" /\ thist' # thist) =>
                /\ ~cpu_lock /\ timer_active'
                /\ \/ ~is_linked(G', Timer0) /\ at_raw(G', Timer0) = BAD_DURATION32
                   \/ /\ is_linked(G', Timer0)
                      /\ wrapping_sub(at'[Timer0], tick) \in {3, 7}
          /\ (timer_period' # timer_period) =>
                /\ ~cpu_lock
                /\ heap' = heap /\ at' = at /\ timer_active' = timer_active
          /\ cpu_lock => (cpu_lock' \/ UNCHANGED <<heap, at, timer_active, timer_period>>)
          /\ (cpu_lock /\ cpu_lock') => UNCHANGED <<heap, at, timer_active, timer_period>>]_vars

\* C34: the locking protocol of the timer's callback: the timeout is
\* scheduled again with CPU Lock held, the callback runs without it, the
\* handler returns with it, and the services of the timer called during
\* the callback work on the timer as scheduled again and keep the link
\* invariant of the timer.
CallbackLockingProtocol ==
    /\ []RelinkedUnderLock
    /\ CallbackRunsUnlocked
    /\ ReturnsLocked
    /\ CallbackOpsOnRescheduled
    /\ []TimerLinkInvariant

\* The callback of the periodic timer has stopped the timer, which holds
\* the delay up to the next arrival, and has then acquired CPU Lock.
CallbackLockingProtocolWitness ==
    /\ handler = "callback" /\ cpu_lock
    /\ thist.last = "stop" /\ ~timer_active
    /\ ~is_linked(G, Timer0) /\ at_raw(G, Timer0) \in 1..4
    /\ timer_period = 4

\* ------------------------------------------------------------------------
\* One run of the tick handler
\* ------------------------------------------------------------------------

\* The periods of the runs counted: none, no tick at all, one tick, four.
TickPeriods == {None, Some(0), Some(1), Some(4)}

\* The most calls of one run that are counted: one more than a timer of
\* period 1 can be behind.
MaxBurst == TIME_USER_HEADROOM + 2

\* Time passes while no tick is being handled.
AdvanceOutside ==
    /\ handler # "tick"
    /\ Advance

\* The tick interrupt is taken, a timeout being due: the history is that
\* of this run, from the expiration time found.
TickBegin ==
    /\ InService
    /\ timeout_due(G)
    /\ Commit([K EXCEPT !.handler = "tick"])
    /\ thist' = Schedule(G, "tick")
    /\ UNCHANGED <<cfg, pc, op, result, arrivals, hook>>
    /\ UNCHANGED <<tick, time_offset, heap, at, timer_active, timer_period>>

\* One turn of the loop of the tick handler: the timeout of the timer,
\* which is due, is unlinked and timer_timeout_handler is called.
TickCall ==
    /\ phase = "run" /\ handler = "tick"
    /\ timeout_due(G) /\ Head(heap) = Timer0
    /\ thist.calls < MaxBurst
    /\ CommitG(expire_timeout(G))
    /\ thist' = [thist EXCEPT !.calls = @ + 1, !.last = "expire"]
    /\ UNCHANGED taskvars

InitTick ==
    /\ cfg = TimeTable
    /\ InitKernel
    /\ \E p \in TickPeriods :
          InitTime([init_active |-> TRUE, delay |-> Some(3), period |-> p])

NextTick ==
    \/ Boot
    \/ Dispatch
    \/ AdvanceOutside
    \/ TickBegin
    \/ TickCall
    \/ TickReturn
    \/ \E d \in Delays : TimerSetDelay(d)
    \/ \E p \in TickPeriods : TimerSetPeriod(p)

SpecTick == InitTick /\ [][NextTick]_vars

\* The loop of the tick handler goes on, and returns when it can.
FairSpecTick == SpecTick /\ WF_vars(TickCall) /\ WF_vars(TickReturn)

\* C35 (a): a call of a timer of a period of one tick or more, the tick
\* counter standing still, links the timeout one period later: the time
\* the timer is behind shrinks by the period, or the timer has caught up.
CallCatchesUp ==
    [][(/\ handler = "tick" /\ thist'.calls = thist.calls + 1
        /\ timer_period # BAD_DURATION32 /\ timer_period >= 1) =>
          /\ tick' = tick
          /\ is_linked(G', Timer0)
          /\ at'[Timer0] = wrapping_add(at[Timer0], timer_period)
          /\ IF wrapping_sub(tick, at[Timer0]) >= timer_period
             THEN /\ is_due(G', Timer0)
                  /\ wrapping_sub(tick, at'[Timer0]) =
                        wrapping_sub(tick, at[Timer0]) - timer_period
             ELSE ~is_due(G', Timer0)]_vars

\* C35 (b): the run returns after 1 + floor((now - e) / period) calls of
\* the timer whose expiration time was e, and leaves the timeout linked
\* at an expiration time after now.
RunCallsCount ==
    [][(/\ handler = "tick" /\ handler' = "none"
        /\ timer_period # BAD_DURATION32 /\ timer_period >= 1) =>
          /\ thist.calls = 1 + (wrapping_sub(tick, thist.first) \div timer_period)
          /\ is_linked(G, Timer0) /\ ~is_due(G, Timer0)
          /\ Remaining(G, Timer0) >= 1 /\ Remaining(G, Timer0) <= timer_period
          /\ tick' = tick]_vars

\* C35 (c): a run of the tick handler on a timer of a period of one tick
\* or more, or of no period, returns.
RunReturns ==
    (handler = "tick" /\ timer_period >= 1) ~> (handler = "none")

\* C35: the handling of a tick terminates: with a period of one tick or
\* more and the tick counter standing still, a run of the tick handler at
\* the time now calls the callback of the timer whose expiration time is
\* e <= now 1 + floor((now - e) / period) times and returns, the timeout
\* linked at an expiration time after now.
TickHandlingTerminates ==
    /\ CallCatchesUp
    /\ RunCallsCount
    /\ RunReturns

\* A timer of period 1 was 6 ticks behind: the run has made 7 calls and
\* the next expiration is one tick ahead.
TickHandlingTerminatesWitness ==
    /\ handler = "tick" /\ timer_period = 1
    /\ thist.last = "expire" /\ thist.calls = 7
    /\ wrapping_sub(tick, thist.first) = 6
    /\ is_linked(G, Timer0) /\ Remaining(G, Timer0) = 1

\* ------------------------------------------------------------------------
\* The wake-ups of a wait queue
\* ------------------------------------------------------------------------

\* A service of task t that calls wake_up_one on queue q; the call notes
\* what wake_up_one returned (1 for true).
WakeOne(t, q) ==
    /\ InTask(t) /\ pc[t] = "user"
    /\ LET r == wake_up_one(enter_cpu_lock(K), q) IN
       Call(t, [name |-> "wake_up_one", obj |-> q, n |-> IF r.woke THEN 1 ELSE 0],
            [k |-> r.k, result |-> "Ok"])

\* A service that calls wake_up_all; the call notes what it returned.
WakeAll(t, q) ==
    /\ InTask(t) /\ pc[t] = "user"
    /\ LET r == wake_up_all(enter_cpu_lock(K), q) IN
       Call(t, [name |-> "wake_up_all", obj |-> q, n |-> IF r.woke THEN 1 ELSE 0],
            [k |-> r.k, result |-> "Ok"])

\* A service that calls wake_up_all_conditional with a condition on the
\* payload; the call notes how often the condition was called.
WakeConditional(t, q, cond) ==
    /\ InTask(t) /\ pc[t] = "user"
    /\ LET k == wake_up_all_conditional(WithEvals(enter_cpu_lock(K)), q, cond) IN
       Call(t, [name |-> cond, obj |-> q, n |-> Len(k.evals)],
            [k |-> k, result |-> "Ok"])

\* Tasks wait on the event group, whose bits are never set, and on the
\* semaphore s1, and are woken up by the three kinds of wake-up.
NextWake ==
    \/ Boot
    \/ Dispatch
    \/ \E t \in Tasks, u \in Tasks : Activate(t, u)
    \/ \E t \in Tasks, g \in EventGroups, pl \in WaitPayloads : EventWait(t, g, pl)
    \/ \E t \in Tasks : SemWaitOne(t, "s1")
    \/ \E t \in Tasks, q \in Queues : WakeOne(t, q)
    \/ \E t \in Tasks, q \in Queues : WakeAll(t, q)
    \/ \E t \in Tasks, q \in Queues, cond \in PayloadConds : WakeConditional(t, q, cond)
    \/ \E t \in Tasks : Unlock(t)
    \/ \E t \in Tasks : WaitReturn(t)

SpecWake == Init /\ [][NextWake]_vars

\* Task t has just made a call of the name given.
JustCalled(t, names) ==
    /\ pc[t] = "user" /\ pc'[t] = "call"
    /\ op'[t].name \in names

\* The tasks of refs made Ready, in that order, behind those ready before.
ReadiedInOrder(refs) ==
    /\ \A i \in 1..Len(refs) :
          /\ st'[refs[i]] = "Ready"
          /\ current_wait'[refs[i]] = NoTask
    /\ \A l \in Levels :
          ready_queue'[l] =
              ready_queue[l] \o SelectSeq(refs, LAMBDA w : cfg.priority[w] = l)

\* C36 (a): wake_up_all_conditional calls the condition once with each
\* wait object of the queue as it was, in queue order; those accepted are
\* removed and their tasks made Ready in that order; the others stay, in
\* order, and wait on.
ConditionalWakesMatching ==
    \A t \in Tasks :
        JustCalled(t, PayloadConds) =>
            LET q == op'[t].obj
                cond == op'[t].name
                refs == waits[q]
                k == wake_up_all_conditional(WithEvals(enter_cpu_lock(K)), q, cond)
                hit == SelectSeq(refs, LAMBDA w : Accepts(cond, payload[w]))
                miss == SelectSeq(refs, LAMBDA w : ~Accepts(cond, payload[w]))
            IN /\ k.evals = refs
               /\ op'[t].n = Len(refs)
               /\ waits'[q] = miss
               /\ ReadiedInOrder(hit)
               /\ \A i \in 1..Len(miss) :
                     /\ st'[miss[i]] = "Waiting"
                     /\ current_wait'[miss[i]] = miss[i]
               /\ \A p \in Queues \ {q} : waits'[p] = waits[p]
               /\ phase' = "run"

\* C36 (b): wake_up_all empties the queue, makes the tasks Ready in queue
\* order and returns true if and only if the queue was not empty.
WakeAllEmpties ==
    \A t \in Tasks :
        JustCalled(t, {"wake_up_all"}) =>
            LET q == op'[t].obj IN
            /\ waits'[q] = <<>>
            /\ ReadiedInOrder(waits[q])
            /\ op'[t].n = IF waits[q] # <<>> THEN 1 ELSE 0
            /\ \A p \in Queues \ {q} : waits'[p] = waits[p]

\* C36 (c): wake_up_one on an empty queue returns false and changes
\* nothing (CPU Lock is the caller's).
WakeOneOnEmpty ==
    \A t \in Tasks :
        (JustCalled(t, {"wake_up_one"}) /\ waits[op'[t].obj] = <<>>) =>
            /\ op'[t].n = 0
            /\ K' = [K EXCEPT !.cpu_lock = TRUE]

\* C36: wake_up_all_conditional wakes exactly the matching waiters, each
\* wait object of the queue evaluated once, in queue order, the others
\* staying in their order; wake_up_all empties the queue and returns true
\* iff the queue was not empty; wake_up_one on an empty queue returns
\* false and changes nothing.
WakeUpFlavours ==
    /\ [][ConditionalWakesMatching]_vars
    /\ [][WakeAllEmpties]_vars
    /\ [][WakeOneOnEmpty]_vars

\* Two tasks waited on the event group, the second one for all bits: a
\* wake-up of the waiters for all bits has called the condition twice,
\* the second waiter is Ready and the first waits on.
WakeUpFlavoursWitness ==
    \E t \in Tasks, a \in Tasks, b \in Tasks :
        /\ pc[t] = "call" /\ op[t] = [name |-> "cond_all", obj |-> "eg", n |-> 2]
        /\ waits["eg"] = <<a>> /\ ~payload[a].all /\ st[a] = "Waiting"
        /\ st[b] = "Ready" /\ payload[b].all /\ wait_queue[b] = "eg"
        /\ current_wait[b] = NoTask

\* ------------------------------------------------------------------------
\* The return of a wait
\* ------------------------------------------------------------------------

\* The waits on the semaphore and on the event group and everything that
\* ends them: the three wake-ups, the timeout and Task::interrupt.
NextResume ==
    \/ NextWait
    \/ \E t \in Tasks, u \in Tasks : Interrupt(t, u)

SpecResume == Init /\ [][NextResume]_vars

\* The wait object of task t, which lives in the frame of WaitQueue::wait,
\* exists: the task is inside the call.
WaitExtant(t) == pc[t] \in {"blocking", "blocked"} /\ wait_queue[t] # NoQueue

\* C37 (a): a task whose wait has ended (it is no longer Waiting) has been
\* taken out of the queue and its current_wait is cleared: its waker did
\* both before it made the task Ready.
WokenIsDequeued ==
    \A t \in Tasks :
        st[t] # "Waiting" =>
            /\ \A q \in Queues : ~InSeq(waits[q], t)
            /\ current_wait[t] = NoTask

\* C37 (b): where wait_inner goes on after wait_until_woken_up, the wait
\* object is not linked and current_wait is cleared: neither assertion
\* fails.
ResumeAssertionsHold ==
    \A t \in Tasks :
        (pc[t] = "blocked" /\ pc'[t] = "call") =>
            /\ \A q \in Queues : ~InSeq(waits[q], t)
            /\ current_wait[t] = NoTask
            /\ phase' = "run"
            /\ wait_queue'[t] = NoQueue

\* C37 (c): a wait queue holds wait objects that exist only: each is that
\* of a Waiting task inside its call of wait on this queue.
QueueHoldsExtantWaits ==
    \A q \in Queues : \A i \in 1..Len(waits[q]) :
        LET t == waits[q][i] IN
        /\ WaitExtant(t)
        /\ wait_queue[t] = q
        /\ st[t] = "Waiting"
        /\ current_wait[t] = t

\* C37: a blocked task resumes only after it was dequeued: however its
\* wait ends, the waker has removed the wait object from the queue and
\* cleared current_wait, the two assertions behind the suspension point
\* hold, and no queue refers to a wait object whose frame has returned.
ResumesOnlyDequeued ==
    /\ []WokenIsDequeued
    /\ [][ResumeAssertionsHold]_vars
    /\ []QueueHoldsExtantWaits

\* Task b, woken up from the event group by a set while another task
\* waits on, is running again and about to go on behind the suspension
\* point.
ResumesOnlyDequeuedWitness ==
    \E a \in Tasks, b \in Tasks :
        /\ a # b
        /\ running_task = b /\ st[b] = "Running" /\ pc[b] = "blocked"
        /\ handler = "none" /\ ~cpu_lock
        /\ wait_queue[b] = "eg" /\ op[b].name = "wait"
        /\ waits["eg"] = <<a>> /\ st[a] = "Waiting"

\* ------------------------------------------------------------------------
\* CPU Lock and the delivery of interrupts
\* ------------------------------------------------------------------------

\* The interrupt lines pended, enabled and given priorities by tasks with
\* and without CPU Lock, and the dispatch line pended by the activation of
\* tasks and by their exit.
MaskLineCall(t, o, num, priority) ==
    /\ o # "set_priority" => priority = 1
    /\ LineCall(t, o, num, priority)

NextMask ==
    \/ Boot
    \/ Dispatch
    \/ \E t \in Tasks : AcquireCpuLock(t)
    \/ \E t \in Tasks : ReleaseCpuLock(t)
    \/ \E t \in Tasks, o \in LineServices \ {"is_pending"}, num \in {0, 1},
          priority \in LinePriorities : MaskLineCall(t, o, num, priority)
    \/ LineReturn
    \/ \E t \in Tasks, u \in Tasks : ActivateTask(t, u)
    \/ \E t \in Tasks : Unlock(t)
    \/ \E t \in Tasks : ExitTask(t)

SpecMask == InitSleep /\ [][NextMask]_vars

\* C38 (a): no interrupt handler, that of the dispatch line included, is
\* executing or starts to execute while CPU Lock is active.
NoHandlerWhileLocked ==
    (phase = "run" /\ handler # "none") => ~cpu_lock

\* C38 (b): while CPU Lock stays active nothing is delivered: no handler
\* starts, and a line that is pended stays pended unless it is cleared.
StaysPendedWhileLocked ==
    (cpu_lock /\ cpu_lock' /\ phase' = "run") =>
        /\ handler' = "none"
        /\ pended => pended'
        /\ \A n \in lines.pended :
              \/ n \in lines'.pended
              \/ \E t \in Tasks : op'[t].name = "clear" /\ op'[t].obj = n
        /\ \A n \in pending_lines(K') \ pending_lines(K) :
              \E t \in Tasks :
                  /\ pc[t] = "locked"
                  /\ op'[t].name \in {"pend", "enable", "set_priority"}
                  /\ op'[t].obj = n

\* C38 (c): when leave_cpu_lock clears the flag the preemption check runs:
\* the most urgent line pending is delivered, or else the dispatch line if
\* it is pended.
DeliveredAtLeave ==
    (cpu_lock /\ ~cpu_lock' /\ phase' = "run") =>
        IF pending_lines(K) # {}
        THEN /\ handler' = "line"
             /\ lines'.pended = lines.pended \ {first_pending_line(K)}
        ELSE /\ handler' \in {"none", "dispatch"}
             /\ ~pended'
             /\ pended => handler' = "dispatch"
             /\ lines'.pended = lines.pended

\* C38 (d): with CPU Lock inactive and no handler running, nothing waits
\* for delivery: what is pending was delivered when the flag was cleared.
NothingHeldBackUnlocked ==
    (phase = "run" /\ handler = "none" /\ ~cpu_lock) =>
        /\ pending_lines(K) = {}
        /\ ~pended

\* C38 (e): the assertion of yield_cpu holds whenever it is called.
YieldOnlyUnlocked == fault # "yield_cpu"

\* C38: CPU Lock masks the delivery of interrupts: no handler starts while
\* it is active; a line pended, enabled or given a priority while it is
\* active stays pended and is delivered when leave_cpu_lock clears the
\* flag and runs the preemption check; yield_cpu is called with CPU Lock
\* inactive only.
CpuLockMasksInterrupts ==
    /\ []NoHandlerWhileLocked
    /\ [][StaysPendedWhileLocked]_vars
    /\ [][DeliveredAtLeave]_vars
    /\ []NothingHeldBackUnlocked
    /\ []YieldOnlyUnlocked

\* A task that holds CPU Lock has pended an enabled line of a managed
\* priority: the line waits, no handler running.
CpuLockMasksInterruptsWitness ==
    \E t \in Tasks :
        /\ pc[t] = "locked" /\ cpu_lock /\ handler = "none" /\ phase = "run"
        /\ op[t].name = "pend" /\ result[t] = "Ok"
        /\ op[t].obj \in pending_lines(K)

\* ------------------------------------------------------------------------
\* The hunk pool (kernel/cfg.rs)
\* ------------------------------------------------------------------------

\* The number of values of a usize.
UsizeModulus == 64

\* The most hunks a configuration asks for.
MaxHunks == 3

\* The types hunks are made of, by size and alignment: (), u8, u64,
\* [u32; 3] and [u64; 5].
HunkTypes ==
    { [size |-> 0, align |-> 1], [size |-> 1, align |-> 1],
      [size |-> 8, align |-> 8], [size |-> 12, align |-> 4],
      [size |-> 40, align |-> 8] }

\* The element types of zero-initialized arrays (u8, u32), their lengths
\* and the alignments asked for.
ZeroTypes == {[size |-> 1, align |-> 1], [size |-> 4, align |-> 4]}

ArrayLens == {0, 3, 33}

ArrayAligns == {1, 3, 16}

\* Port::STACK_DEFAULT_SIZE and Port::STACK_ALIGN.
STACK_DEFAULT_SIZE == 16

STACK_ALIGN == 8

\* The stacks tasks are given: none, a size, or a hunk made before.
TaskStacks == {"None", "Auto", "Hunk"}

StackSizes == {5}

\* CfgBuilder::new. `overflow_checks` is the build's: an overflowing
\* operation panics with them and wraps without. `ranges` keeps the hunks
\* handed out (Hunk::from_range) with the alignment of each, `error` the
\* panic that ended the configuration, `overflowed` whether an operation
\* has wrapped.
CfgBuilder_new(checks) ==
    [hunks |-> <<>>, hunk_pool_len |-> 0, hunk_pool_align |-> 1,
     tasks |-> <<>>, num_task_priority_levels |-> num_task_priority_levels,
     active |-> {}, ranges |-> <<>>,
     overflow_checks |-> checks, error |-> "none", overflowed |-> FALSE]

\* usize::is_power_of_two: no odd number but 1 divides it.
is_power_of_two(a) ==
    a > 0 /\ \A d \in 2..a : a % d = 0 => d % 2 = 0

\* An operation on usize whose exact result is x.
usize_op(x) ==
    [v |-> x % UsizeModulus, overflow |-> x < 0 \/ x >= UsizeModulus]

\* The configuration after operations of which `overflow` tells whether
\* one has overflowed.
arith(c, overflow) ==
    IF ~overflow THEN c
    ELSE IF c.overflow_checks THEN [c EXCEPT !.error = "overflow"]
    ELSE [c EXCEPT !.overflowed = TRUE]

\* A round-up that leaves the length as it is.
round_up_none(len, align) == [v |-> len, overflow |-> FALSE]

\* (hunk_pool_len + align - 1) / align * align.
round_up(len, align) ==
    LET s == usize_op(len + align)
        d == usize_op(s.v - 1)
    IN [v |-> (d.v \div align) * align, overflow |-> s.overflow \/ d.overflow]

\* The hunk pool grown by a hunk of `size` bytes aligned to `align`;
\* `push` tells whether the hunk has an initializer.
new_range(c, size, align, push, overflow) ==
    LET r == round_up(c.hunk_pool_len, align)
        start == r.v
        e == usize_op(start + size)
        c1 == [c EXCEPT !.hunk_pool_len = e.v,
                        !.hunks = IF push THEN Append(@, [offset |-> start]) ELSE @,
                        !.hunk_pool_align = IF align > @ THEN align ELSE @,
                        !.ranges = Append(@, [start |-> start, len |-> size,
                                              align |-> align])]
    IN arith(c1, overflow \/ r.overflow \/ e.overflow)

\* cfg_new_hunk::<T>.
cfg_new_hunk(c, T) == new_range(c, T.size, T.align, TRUE, FALSE)

\* cfg_new_hunk_zero_array::<T>.
cfg_new_hunk_zero_array(c, T, len, align) ==
    IF ~is_power_of_two(align) THEN [c EXCEPT !.error = "align"]
    ELSE LET a == IF T.align > align THEN T.align ELSE align
             byte_len == usize_op(T.size * len)
         IN new_range(c, byte_len.v, a, FALSE, byte_len.overflow)

\* CfgTaskBuilder::finish, the entry point and the priority specified.
finish(c, stack, size, priority, active) ==
    LET c1 == CASE stack = "None" ->
                     cfg_new_hunk_zero_array(c, [size |-> 1, align |-> 1],
                                             STACK_DEFAULT_SIZE, STACK_ALIGN)
                [] stack = "Auto" ->
                     cfg_new_hunk_zero_array(c, [size |-> 1, align |-> 1],
                                             size, STACK_ALIGN)
                [] stack = "Hunk" -> c
        hunk == c1.ranges[Len(c1.ranges)]
    IN IF c1.error # "none" THEN c1
       ELSE [c1 EXCEPT !.tasks = Append(@, [stack |-> [start |-> hunk.start,
                                                        len |-> hunk.len],
                                            priority |-> priority,
                                            active |-> active]),
                       !.active = IF active THEN @ \cup {TaskPool[Len(c1.tasks) + 1]}
                                  ELSE @]

\* A configuration function is called: the kernel is not built yet.
Configure(c) ==
    /\ Len(cfg.ranges) < MaxHunks
    /\ cfg' = c
    /\ UNCHANGED <<kvars, pc, op, result, arrivals, hook, tvars>>

NewHunk(T) ==
    /\ cfg.error = "none"
    /\ Configure(cfg_new_hunk(cfg, T))

NewHunkZeroArray(T, len, align) ==
    /\ cfg.error = "none"
    /\ Configure(cfg_new_hunk_zero_array(cfg, T, len, align))

NewTask(stack, size, active) ==
    /\ cfg.error = "none"
    /\ Len(cfg.tasks) < Len(TaskPool)
    /\ stack = "Hunk" => cfg.ranges # <<>>
    /\ Configure(finish(cfg, stack, size, 1, active))

InitHunk ==
    /\ \E checks \in BOOLEAN : cfg = CfgBuilder_new(checks)
    /\ InitKernel
    /\ InitTime(NoTimerAttr)

NextHunk ==
    \/ \E T \in HunkTypes : NewHunk(T)
    \/ \E T \in ZeroTypes, len \in ArrayLens, align \in ArrayAligns :
          NewHunkZeroArray(T, len, align)
    \/ \E stack \in TaskStacks, size \in StackSizes, active \in BOOLEAN :
          NewTask(stack, size, active)

SpecHunk == InitHunk /\ [][NextHunk]_vars

\* The largest of the alignments of the hunks made, 1 if there is none.
LargestAlign(ranges) ==
    CHOOSE a \in {1} \cup {ranges[i].align : i \in 1..Len(ranges)} :
        \A i \in 1..Len(ranges) : ranges[i].align <= a

\* Every hunk starts at a multiple of its alignment; the hunks lie in the
\* pool and no two share a byte; the alignment of the pool is the largest
\* of theirs.
HunksLaidOut ==
    LET r == cfg.ranges IN
    /\ \A i \in 1..Len(r) :
          /\ r[i].start % r[i].align = 0
          /\ r[i].start + r[i].len <= cfg.hunk_pool_len
    /\ \A i \in 1..Len(r), j \in 1..Len(r) :
          i < j => \/ r[i].len = 0 \/ r[j].len = 0
                   \/ r[i].start + r[i].len <= r[j].start
                   \/ r[j].start + r[j].len <= r[i].start
    /\ cfg.hunk_pool_align = LargestAlign(r)
    /\ cfg.hunk_pool_align >= 1

PoolNeverShrinks ==
    [][cfg.error = "none" /\ cfg'.error = "none"
          => cfg'.hunk_pool_len >= cfg.hunk_pool_len]_vars

\* C39: the layout of the hunks: after any calls of cfg_new_hunk and
\* cfg_new_hunk_zero_array, those of the stacks of the tasks included,
\* every hunk starts at a multiple of its alignment, the hunks are
\* disjoint and lie within the pool, hunk_pool_len never decreases and
\* hunk_pool_align is the largest alignment asked for, 1 at least.
HunkLayout ==
    /\ [](cfg.error = "none" => HunksLaidOut)
    /\ PoolNeverShrinks

\* The layout as long as no operation on usize has overflowed.
HunkLayoutInRange ==
    /\ [](cfg.error = "none" /\ ~cfg.overflowed => HunksLaidOut)
    /\ [][cfg.error = "none" /\ cfg'.error = "none" /\ ~cfg'.overflowed
             => cfg'.hunk_pool_len >= cfg.hunk_pool_len]_vars

\* Three hunks, the second one behind padding, and a task on the last.
HunkLayoutInRangeWitness ==
    /\ cfg.error = "none" /\ ~cfg.overflowed
    /\ Len(cfg.ranges) = 3 /\ Len(cfg.tasks) = 1
    /\ cfg.ranges[1] = [start |-> 0, len |-> 1, align |-> 1]
    /\ cfg.ranges[2] = [start |-> 8, len |-> 8, align |-> 8]
    /\ cfg.ranges[3].start = 16 /\ cfg.ranges[3].len = 5
    /\ cfg.hunk_pool_len = 21 /\ cfg.hunk_pool_align = 8

\* ------------------------------------------------------------------------
\* The task state machine of the hosted port
\* ------------------------------------------------------------------------

\* The scheduler's choice in the dispatch handler, before a thread is
\* chosen for the task.
Chosen == choose_running_task(enter_cpu_lock(K))

\* C40 (a): the port state of a task moves from Uninit to Dormant in
\* initialize_task_state, called by the scheduler for a task pending
\* activation; from Dormant to Running when the dispatcher first selects
\* the task; and from Running to Uninit when the task exits.
TsmMoves ==
    \A t \in Tasks :
        tsm'[t] # tsm[t] =>
            \/ /\ tsm[t] = "Uninit" /\ tsm'[t] = "Dormant"
               /\ handler = "dispatch" /\ st[t] = "PendingActivation"
               /\ Chosen.running_task # t
            \/ /\ tsm[t] = "Uninit" /\ tsm'[t] = "Running"
               /\ handler = "dispatch" /\ st[t] = "PendingActivation"
               /\ Chosen.tsm[t] = "Dormant" /\ Chosen.running_task = t
            \/ /\ tsm[t] = "Dormant" /\ tsm'[t] = "Running"
               /\ handler = "dispatch"
               /\ Chosen.running_task = t /\ running_task' = t
            \/ /\ tsm[t] = "Running" /\ tsm'[t] = "Uninit"
               /\ running_task = t /\ st[t] = "Running" /\ st'[t] = "Dormant"

\* C40 (b): the task the dispatcher selects has the port state Dormant or
\* Running, and Running when the handler returns.
SelectedIsInitialized ==
    (phase = "run" /\ handler = "dispatch" /\ Chosen.running_task # NoTask) =>
        /\ Chosen.tsm[Chosen.running_task] \in {"Dormant", "Running"}
        /\ running_task' = Chosen.running_task
        /\ tsm'[running_task'] = "Running"
        /\ phase' = "run"

\* C40 (c): initialize_task_state is not called for a task whose port
\* state is Running: no task pending activation has a thread, and neither
\* the todo! of initialize_task_state nor the unreachable! of the dispatcher
\* is reached.
NoInitOfRunning ==
    /\ \A t \in Tasks : st[t] = "PendingActivation" => tsm[t] # "Running"
    /\ fault \notin {"initialize_task_state", "dispatch"}

\* C40 (d): exit_and_dispatch is entered with CPU Lock active and leaves
\* it inactive, the dispatch line pended (or taken at once).
ExitLeavesUnlockedAndPended ==
    \A t \in Tasks :
        (tsm[t] = "Running" /\ tsm'[t] # "Running") =>
            /\ ~cpu_lock' /\ phase' = "run"
            /\ pended' \/ handler' = "dispatch"
            /\ fault' = "none"

\* C40: the task state machine of the hosted port: Uninit -> Dormant ->
\* Running -> Uninit; the task the dispatcher selects is never Uninit,
\* also when it was activated again after its exit; initialize_task_state
\* is never called for a Running task; exit_and_dispatch is entered with
\* CPU Lock active and leaves it inactive with the dispatch line pended.
PortTaskStateMachine ==
    /\ [][TsmMoves]_vars
    /\ [][SelectedIsInitialized]_vars
    /\ []NoInitOfRunning
    /\ [][ExitLeavesUnlockedAndPended]_vars
    /\ [](fault # "exit_and_dispatch")

\* A task that was active at boot has run and exited and has been
\* activated again: its port state is Uninit and the dispatch handler is
\* about to run.
PortTaskStateMachineWitness ==
    \E t \in cfg.active, u \in Tasks :
        /\ t # u
        /\ op[u].name = "activate" /\ op[u].obj = t /\ result[u] = "Ok"
        /\ st[t] = "PendingActivation" /\ tsm[t] = "Uninit"
        /\ tsm[u] = "Running"

====
